---- MODULE Spec2Model ----
(***************************************************************************)
(* wakuchin-rs: the research engine of core/src/worker.rs (run_par and     *)
(* run_seq), with the hit counter task (hit/counter.rs), the hit store     *)
(* (hit/store.rs) and the progress handler contract (handlers.rs).         *)
(*                                                                         *)
(* One behaviour is one call of run_par or run_seq.  The inputs (mode,     *)
(* tries, times, regex, workers, interval) are chosen in Init.  A regex is *)
(* modelled by the set of candidates it matches.  The candidate text       *)
(* carried by a Processing snapshot is display data only and is left out   *)
(* of the progress channel values.  std::thread::available_parallelism and *)
(* the tokio runtime construction are taken to succeed.                    *)
(*                                                                         *)
(* Task abortion follows tokio: AbortHandle::abort cancels a task that has *)
(* not been polled yet or that is suspended at an await; a task that is    *)
(* running is cancelled at its next suspension.  A worker never suspends   *)
(* (the send on the unbounded hit channel and the watch send complete at   *)
(* once), so an abort reaches it only before its first poll.               *)
(*                                                                         *)
(* A behaviour ends when the entry point returns: tasks that are still    *)
(* alive then (runtime.shutdown_background does not wait for them) are     *)
(* left where they are.                                                    *)
(***************************************************************************)
EXTENDS Integers, Sequences, FiniteSets, TLC

\* ------------------------------------------------------------------ bounds
MaxTries == 2
MaxWorkers == 2
MaxHandle == 1

\* available_parallelism(): the number of logical cores of the machine
LogicalCpus == 1

\* gen(times): representative shuffles of the symbols for times = 1
Candidates == {"WKCN", "NCKW"}
\* a compiled regex, as the set of candidates it matches
Regexes == {{}, {"WKCN"}, Candidates}
Times == {0, 1}

Modes == {"par", "seq"}

\* ------------------------------------------------------------------ state
VARIABLES
  mode,          \* "par": run_par, "seq": run_seq
  tries, times, regex, workers, interval_zero,   \* the arguments
  pc,            \* position of the engine (the caller of run_par / run_seq)
  result,        \* what the entry point returned
  calls,         \* handler operations invoked so far, in order (observer)
  interrupted,   \* the operator interrupt has been delivered (observer)
  flag,          \* value of the accidential_stop watch channel (run_par)
  abort_fired,   \* the abort task has run its loop over handles_to_abort
  wpc, wi, whits,\* per worker: position, loop index, local hits
  progress,      \* per worker: value of its progress watch channel
  progress_open, \* the progress receivers (owned by the render) exist
  hit_chan,      \* the hit channel (unbounded flume queue)
  main_hit_tx,   \* the engine still holds its hit sender
  store,         \* the hit store: text -> count
  count_stopped, \* HitCounter.count_stopped
  cpc, c_abort,  \* hit counter task: position, abort pending
  apc, a_abort,  \* aggregator task: position, abort pending
  a_result,      \* what the aggregator task returned
  n_handle,      \* non-final handle calls made by the aggregator
  seen,          \* per worker: the snapshot the aggregator read last
  done_q,        \* workers in the order their tasks ended (JoinSet order)
  joined,        \* workers already returned by join_next
  hits_detail,   \* the list assembled by the engine
  detail_src,    \* observer: for each entry of hits_detail, the worker it came from
  seq_i,         \* run_seq: index of the next candidate
  stop_chan,     \* run_seq: messages in the oneshot channel of the ctrlc handler
  ctrlc_set,     \* run_seq: the ctrlc handler is installed
  tested,        \* observer: global index -> number of candidates generated for it
  generated,     \* observer: the candidate texts generated so far
  intr_early,    \* observer: the interrupt came before any handle call with all_done
  errors,        \* observer: the errors of the run in the order they occurred
  even_divisions,\* the EvenDivisions iterator of (0..tries).divide_evenly_into(n)
  thread_render, \* the ThreadRender of render.rs with its channels
  hit_store,     \* a HitStore / SyncHitStore with the callers that use it
  builder,       \* a ResearchBuilder: its type state and its fields
  process,       \* the process that calls the entry points several times
  generator,     \* one call of gen(times)
  converter,     \* one call of a display transform of convert.rs
  seq_render,    \* the Render of run_seq with its clock
  console,       \* the progress bar arithmetic of the console handler
  handler        \* the progress handler of run_par and the tasks that can reach it

vars == <<mode, tries, times, regex, workers, interval_zero, pc, result, calls,
          interrupted, flag, abort_fired, wpc, wi, whits, progress,
          progress_open, hit_chan, main_hit_tx, store, count_stopped, cpc,
          c_abort, apc, a_abort, a_result, n_handle, seen, done_q, joined,
          hits_detail, detail_src, seq_i, stop_chan, ctrlc_set, tested,
          generated, intr_early, errors, even_divisions,
          thread_render, hit_store, builder, process, generator, converter,
          seq_render, console, handler>>

\* ------------------------------------------------------------------ helpers
RECURSIVE SumOver(_, _)
SumOver(f, S) ==
  IF S = {} THEN 0
  ELSE LET x == CHOOSE y \in S : TRUE IN f[x] + SumOver(f, S \ {x})

\* workers.rs get_total_workers
get_total_workers(w) == IF w # 0 THEN w ELSE LogicalCpus

\* total_workers of the run (worker ids are 1-based here as in the snapshots)
total_workers == get_total_workers(workers)
WorkerIds == 1..total_workers

\* divide_evenly_into: length of the next division when `remaining` indices
\* are left for `divisions` divisions (the remainder goes to the first ones)
division_len_whole(remaining, divisions) == remaining
division_len_floor(remaining, divisions) == remaining \div divisions
division_len(remaining, divisions) ==
  (remaining + divisions - 1) \div divisions

\* lo(k): start of the k-th division (k = 1..n) of 0..len
range_lo_stuck(len, n, k) == 0
RECURSIVE range_lo(_, _, _)
range_lo(len, n, k) ==
  IF k = 1 THEN 0
  ELSE LET lo == range_lo(len, n, k - 1)
       IN lo + division_len(len - lo, n - (k - 2))

range_hi(len, n, k) ==
  LET lo == range_lo(len, n, k) IN lo + division_len(len - lo, n - (k - 1))

\* `total` captured by worker k: wakuchins.len()
total(k) == range_hi(tries, total_workers, k) - range_lo(tries, total_workers, k)

\* lib.rs check: Regex::is_match
check_any(wakuchin, re) == TRUE
check(wakuchin, re) == wakuchin \in re

\* Hit::new(i, &wakuchin)
Hit_new_zero(i, wakuchin) == [hit_on |-> 0, chars |-> wakuchin]
Hit_new_one_based(i, wakuchin) == [hit_on |-> i + 1, chars |-> wakuchin]
Hit_new(i, wakuchin) == [hit_on |-> i, chars |-> wakuchin]

\* HitStore::add / SyncHitStore::add
store_add_set(s, chars) == [s EXCEPT ![chars] = 1]
store_add_twice(s, chars) == [s EXCEPT ![chars] = @ + 2]
store_add(s, chars) == [s EXCEPT ![chars] = @ + 1]

\* HitStore::get_all + into_hit_counts: one entry per text present
get_all(s) == {[chars |-> t, hits |-> s[t]] : t \in {u \in Candidates : s[u] > 0}}

\* hits.iter().map(|c| c.hits).sum()
hits_sum(s) == SumOver(s, Candidates)

EmptyStore == [t \in Candidates |-> 0]

NoResult == [kind |-> "none", error |-> "", tries |-> 0, hits_total |-> 0,
             hits |-> {}, hits_detail |-> <<>>]
Ok(t, s, detail) == [kind |-> "Ok", error |-> "", tries |-> t,
                     hits_total |-> hits_sum(s), hits |-> get_all(s),
                     hits_detail |-> detail]
Err(e) == [kind |-> "Err", error |-> e, tries |-> 0, hits_total |-> 0,
           hits |-> {}, hits_detail |-> <<>>]

\* a handler operation as it appears in the call log, with its outcome
Call(op, all_done, ok) == [op |-> op, all_done |-> all_done, ok |-> ok]

\* the hit channel is disconnected when every sender is dropped
WorkerHoldsTx(k) == wpc[k] \in {"spawned", "loop", "exit"}
hit_tx_alive_engine_only == main_hit_tx
hit_tx_alive == main_hit_tx \/ \E k \in DOMAIN wpc : WorkerHoldsTx(k)

Idle == [kind |-> "Idle", current |-> 0, total |-> 0]
Processing_of_tries(cur, tot) ==
  [kind |-> "Processing", current |-> cur, total |-> tries]
Processing(cur, tot) == [kind |-> "Processing", current |-> cur, total |-> tot]
Done(tot) == [kind |-> "Done", current |-> 0, total |-> tot]
\* a progress receiver that the aggregator has not read yet
Unread == [kind |-> "Unread", current |-> 0, total |-> 0]

\* the objects that are studied on their own, while they are not in use
NoDivisions == [start |-> 0, end |-> 0, remaining |-> 0, yielded |-> <<>>]
NoRender == [used |-> FALSE]
NoObject == [used |-> FALSE]

\* ------------------------------------------------------------------ Init
\* the state of an entry point that has not started yet
Fresh ==
  /\ result = NoResult
  /\ calls = <<>>
  /\ interrupted = FALSE
  /\ flag = FALSE
  /\ abort_fired = FALSE
  /\ wpc = <<>> /\ wi = <<>> /\ whits = <<>>
  /\ progress = <<>>
  /\ progress_open = FALSE
  /\ hit_chan = <<>>
  /\ main_hit_tx = FALSE
  /\ store = EmptyStore
  /\ count_stopped = FALSE
  /\ cpc = "none" /\ c_abort = FALSE
  /\ apc = "none" /\ a_abort = FALSE
  /\ a_result = "none"
  /\ n_handle = 0
  /\ seen = <<>>
  /\ done_q = <<>>
  /\ joined = {}
  /\ hits_detail = <<>>
  /\ detail_src = <<>>
  /\ seq_i = 0
  /\ stop_chan = 0
  /\ ctrlc_set = FALSE
  /\ tested = [g \in 0..(MaxTries - 1) |-> 0]
  /\ generated = {}
  /\ intr_early = FALSE
  /\ errors = <<>>

Init ==
  /\ mode \in Modes
  /\ tries \in 0..MaxTries
  /\ times \in Times
  /\ regex \in Regexes
  /\ workers \in (IF mode = "par" THEN 0..MaxWorkers ELSE {1})
  /\ interval_zero \in (IF mode = "seq" THEN BOOLEAN ELSE {FALSE})
  /\ pc = "start"
  /\ Fresh
  /\ even_divisions = NoDivisions
  /\ thread_render = NoRender
  /\ hit_store = NoObject /\ builder = NoObject /\ process = NoObject
  /\ generator = NoObject /\ converter = NoObject
  /\ seq_render = NoObject /\ console = NoObject /\ handler = NoObject

\* groups of variables, for UNCHANGED
others == <<even_divisions, thread_render, hit_store, builder, process,
            generator, converter, seq_render, console, handler>>
inputs == <<mode, tries, times, regex, workers, interval_zero>>
workerVars == <<wpc, wi, whits, done_q>>
counterVars == <<count_stopped, cpc, c_abort>>
aggVars == <<apc, a_abort, a_result, n_handle, seen>>
seqVars == <<seq_i, stop_chan, ctrlc_set>>
runVars == <<inputs, pc, result, calls, interrupted, flag, abort_fired,
             workerVars, progress, progress_open, hit_chan, main_hit_tx, store,
             counterVars, aggVars, joined, hits_detail, detail_src, seqVars,
             tested, generated, intr_early, errors>>

\* everything but one of the objects that are studied on their own
besidesDivisions == <<runVars, thread_render, hit_store, builder, process,
    generator, converter, seq_render, console, handler>>
besidesRender == <<runVars, even_divisions, hit_store, builder, process,
    generator, converter, seq_render, console, handler>>
besidesStore == <<runVars, even_divisions, thread_render, builder, process,
    generator, converter, seq_render, console, handler>>
besidesBuilder == <<runVars, even_divisions, thread_render, hit_store,
    process, generator, converter, seq_render, console, handler>>
besidesProcess == <<runVars, even_divisions, thread_render, hit_store,
    builder, generator, converter, seq_render, console, handler>>
besidesGenerator == <<runVars, even_divisions, thread_render, hit_store,
    builder, process, converter, seq_render, console, handler>>
besidesConverter == <<runVars, even_divisions, thread_render, hit_store,
    builder, process, generator, seq_render, console, handler>>
besidesSeqRender == <<runVars, even_divisions, thread_render, hit_store,
    builder, process, generator, converter, console, handler>>
besidesConsole == <<runVars, even_divisions, thread_render, hit_store,
    builder, process, generator, converter, seq_render, handler>>
besidesHandler == <<runVars, even_divisions, thread_render, hit_store,
    builder, process, generator, converter, seq_render, console>>

\* no entry point is running: the state of run_par / run_seq while one of the
\* objects below is studied on its own
NoRun ==
  /\ mode = "par" /\ tries = 0 /\ times = 0 /\ regex = {} /\ workers = 0
  /\ interval_zero = FALSE
  /\ pc = "none"
  /\ Fresh

Joining == pc \in {"join_workers", "join_counter", "join_ui"}

\* the error log after one more error (e = "" : no error)
failed(e) == IF e = "" THEN errors ELSE Append(errors, e)

\* ------------------------------------------------------------------ engine
\* the order of the two input checks of run_par / run_seq
validate_times_first(tr, ti) ==
  IF ti = 0 THEN "TimesIsZero" ELSE IF tr = 0 THEN "empty" ELSE "run"
validate_no_times(tr, ti) == IF tr = 0 THEN "empty" ELSE "run"
validate(tr, ti) ==
  IF tr = 0 THEN "empty" ELSE IF ti = 0 THEN "TimesIsZero" ELSE "run"

\* run_par / run_seq up to the construction of the render: the input checks
\* and, in run_par, the creation of the channels
Enter ==
  /\ pc = "start"
  /\ LET v == validate(tries, times) IN
     /\ pc' = IF v = "run" THEN "before_start" ELSE "returned"
     /\ result' = IF v = "empty" THEN Ok(0, EmptyStore, <<>>)
                  ELSE IF v = "TimesIsZero" THEN Err("TimesIsZero")
                  ELSE result
     /\ progress' = IF v = "run" /\ mode = "par"
                    THEN [k \in WorkerIds |-> Idle] ELSE progress
     /\ progress_open' = (v = "run" /\ mode = "par")
     /\ main_hit_tx' = (v = "run" /\ mode = "par")
  /\ UNCHANGED <<others, inputs, calls, interrupted, flag, abort_fired, workerVars,
                 hit_chan, store, counterVars, aggVars, joined, hits_detail, detail_src,
                 seqVars, tested, generated, intr_early, errors>>

\* where the engine goes after render.invoke_before_start()?
after_before_start_ignore(ok, m) == IF m = "par" THEN "spawn" ELSE "seq_idle"
after_before_start(ok, m) ==
  IF ~ok THEN "returned" ELSE IF m = "par" THEN "spawn" ELSE "seq_idle"

InvokeBeforeStart ==
  /\ pc = "before_start"
  /\ \E ok \in BOOLEAN :
       /\ calls' = Append(calls, Call("before_start", FALSE, ok))
       /\ pc' = after_before_start(ok, mode)
       /\ result' = IF pc' = "returned" THEN Err("HandlerError") ELSE result
       /\ progress_open' = IF pc' = "returned" THEN FALSE ELSE progress_open
       /\ main_hit_tx' = IF pc' = "returned" THEN FALSE ELSE main_hit_tx
       /\ errors' = failed(IF ok THEN "" ELSE "HandlerError")
  /\ UNCHANGED <<others, inputs, interrupted, flag, abort_fired, workerVars, progress,
                 hit_chan, store, counterVars, aggVars, joined, hits_detail, detail_src,
                 seqVars, tested, generated, intr_early>>

\* run_par: create the runtime, spawn the hit counter, the progress reporter,
\* the signal task and the workers, drop the engine's hit sender, spawn the
\* abort task
Spawn ==
  /\ pc = "spawn"
  /\ cpc' = "sleep"
  /\ apc' = "wait"
  /\ wpc' = [k \in WorkerIds |-> "spawned"]
  /\ wi' = [k \in WorkerIds |-> 0]
  /\ whits' = [k \in WorkerIds |-> <<>>]
  /\ main_hit_tx' = FALSE
  /\ seen' = [k \in WorkerIds |-> Unread]
  /\ pc' = "join_workers"
  /\ UNCHANGED <<others, inputs, result, calls, interrupted, flag, abort_fired,
                 progress, progress_open, hit_chan, store, count_stopped,
                 c_abort, a_abort, a_result, n_handle, done_q, joined,
                 hits_detail, detail_src, seqVars, tested, generated, intr_early, errors>>

\* ------------------------------------------------------------------ signal
\* the operator interrupt.  run_par: the signal task receives ctrl_c and sends
\* true on the accidential_stop channel.  run_seq: the ctrlc handler sends ()
\* on the oneshot channel.
Interrupt ==
  /\ ~interrupted
  /\ \/ mode = "par" /\ Joining
     \/ mode = "seq" /\ ctrlc_set /\ pc # "returned"
  /\ interrupted' = TRUE
  /\ intr_early' = (\A n \in 1..Len(calls) : ~calls[n].all_done)
  /\ flag' = (mode = "par")
  /\ stop_chan' = IF mode = "seq" THEN 1 ELSE stop_chan
  /\ UNCHANGED <<others, inputs, pc, result, calls, abort_fired, workerVars, progress,
                 progress_open, hit_chan, main_hit_tx, store, counterVars,
                 aggVars, joined, hits_detail, detail_src, seq_i, ctrlc_set, tested,
                 generated, errors>>

\* the workers of a set, in increasing id order
RECURSIVE InIdOrder(_)
InIdOrder(S) ==
  IF S = {} THEN <<>>
  ELSE LET m == CHOOSE x \in S : \A y \in S : x <= y
       IN <<m>> \o InIdOrder(S \ {m})

\* the abort task: accidential_stop_rx.changed(), then handle.abort() for the
\* hit counter, the progress reporter and every worker
AbortAll ==
  /\ Joining
  /\ flag
  /\ ~abort_fired
  /\ abort_fired' = TRUE
  /\ cpc' = IF cpc = "sleep" THEN "cancelled" ELSE cpc
  /\ c_abort' = (cpc = "run")
  /\ apc' = IF apc = "wait" THEN "cancelled" ELSE apc
  /\ a_abort' = (apc \in {"top", "poll", "after"})
  /\ progress_open' = IF apc = "wait" THEN FALSE ELSE progress_open
  /\ wpc' = [k \in WorkerIds |-> IF wpc[k] = "spawned" THEN "cancelled" ELSE wpc[k]]
  /\ done_q' = done_q \o InIdOrder({k \in WorkerIds : wpc[k] = "spawned"})
  /\ errors' = errors \o [n \in 1..Cardinality(
                   {k \in WorkerIds : wpc[k] = "spawned"}
                     \cup (IF cpc = "sleep" THEN {-1} ELSE {})
                     \cup (IF apc = "wait" THEN {-2} ELSE {})) |-> "Cancelled"]
  /\ UNCHANGED <<others, inputs, pc, result, calls, interrupted, flag, wi, whits,
                 progress, hit_chan, main_hit_tx, store, count_stopped,
                 a_result, n_handle, seen, joined, hits_detail, detail_src,
                 seqVars, tested, generated, intr_early>>

\* ------------------------------------------------------------------ worker
\* the loop condition of the worker: break when the stop flag is set and the
\* progress send failed
must_break(stop, send_ok) == stop /\ ~send_ok

\* one iteration of the worker loop: gen, check, hit send and push, progress
\* send, break test
WorkerIter(k) ==
  /\ Joining
  /\ wpc[k] \in {"spawned", "loop"}
  /\ wi[k] < total(k)
  /\ \E wakuchin \in Candidates :
       LET i == wi[k]
           hit == Hit_new(i, wakuchin)
           matched == check(wakuchin, regex)
           send_ok == progress_open
       IN /\ hit_chan' = IF matched THEN Append(hit_chan, hit) ELSE hit_chan
          /\ whits' = IF matched THEN [whits EXCEPT ![k] = Append(@, hit)]
                      ELSE whits
          /\ progress' = IF send_ok
                         THEN [progress EXCEPT ![k] = Processing(i, total(k))]
                         ELSE progress
          /\ wpc' = [wpc EXCEPT ![k] = IF must_break(flag, send_ok)
                                       THEN "exit" ELSE "loop"]
          /\ wi' = [wi EXCEPT ![k] = i + 1]
          /\ tested' = [tested EXCEPT
                          ![range_lo(tries, total_workers, k) + i] = @ + 1]
          /\ generated' = generated \cup {wakuchin}
  /\ UNCHANGED <<others, inputs, pc, result, calls, interrupted, flag, abort_fired,
                 progress_open, main_hit_tx, store, counterVars, aggVars,
                 done_q, joined, hits_detail, detail_src, seqVars, intr_early, errors>>

\* the end of the loop (range exhausted or break), drop(hit_tx) and the
\* test `if !progress_tx.is_closed()`: when closed the worker returns its hits
WorkerDropTx(k) ==
  /\ Joining
  /\ \/ wpc[k] = "exit"
     \/ wpc[k] \in {"spawned", "loop"} /\ wi[k] = total(k)
  /\ wpc' = [wpc EXCEPT ![k] = IF progress_open THEN "send" ELSE "done"]
  /\ done_q' = IF progress_open THEN done_q ELSE Append(done_q, k)
  /\ UNCHANGED <<others, inputs, pc, result, calls, interrupted, flag, abort_fired,
                 wi, whits, progress, progress_open, hit_chan, main_hit_tx,
                 store, counterVars, aggVars, joined, hits_detail, detail_src, seqVars,
                 tested, generated, intr_early, errors>>

\* progress_tx.send(Done).unwrap(), then the worker returns its hits; the
\* unwrap panics when the receivers were dropped after the is_closed test
WorkerSendDone(k) ==
  /\ Joining
  /\ wpc[k] = "send"
  /\ wpc' = [wpc EXCEPT ![k] = IF progress_open THEN "done" ELSE "panicked"]
  /\ progress' = IF progress_open
                 THEN [progress EXCEPT ![k] = Done(total(k))] ELSE progress
  /\ done_q' = Append(done_q, k)
  /\ errors' = failed(IF progress_open THEN "" ELSE "WorkerError")
  /\ UNCHANGED <<others, inputs, pc, result, calls, interrupted, flag, abort_fired,
                 wi, whits, progress_open, hit_chan, main_hit_tx, store,
                 counterVars, aggVars, joined, hits_detail, detail_src, seqVars,
                 tested, generated, intr_early>>

\* ------------------------------------------------------------------ hit counter
\* HitCounter::run: one try_recv of the loop.  Ok: add to the store.
\* Disconnected: set count_stopped and end.  Empty: sleep (the suspension at
\* which a pending abort takes effect).
CounterRecv ==
  /\ Joining
  /\ cpc \in {"sleep", "run"}
  /\ IF hit_chan # <<>>
     THEN /\ store' = store_add(store, Head(hit_chan).chars)
          /\ hit_chan' = Tail(hit_chan)
          /\ cpc' = "run"
          /\ UNCHANGED count_stopped
     ELSE IF ~hit_tx_alive
     THEN /\ count_stopped' = TRUE
          /\ cpc' = "done"
          /\ UNCHANGED <<store, hit_chan>>
     ELSE /\ cpc' = IF c_abort THEN "cancelled" ELSE "sleep"
          /\ UNCHANGED <<store, hit_chan, count_stopped>>
  /\ errors' = failed(IF cpc' = "cancelled" THEN "Cancelled" ELSE "")
  /\ UNCHANGED <<others, inputs, pc, result, calls, interrupted, flag, abort_fired,
                 workerVars, progress, progress_open, main_hit_tx, c_abort,
                 aggVars, joined, hits_detail, detail_src, seqVars, tested,
                 generated, intr_early>>

\* ------------------------------------------------------------------ aggregator
\* The progress reporter task of run_par is `render.run(interval)` followed by
\* `render.invoke_after_finish()`.  The loop of ThreadRender::run is the
\* aggregator loop: cancellation test, drain_complete test with the final
\* handle call, interval test, periodic handle call.  The render (and with it
\* the progress receivers) is dropped when the task ends.

\* the task ended with result r
AggEnd(r) ==
  /\ apc' = "done"
  /\ a_result' = r
  /\ progress_open' = FALSE

\* loop head: if cancellation: invoke on_accidental_stop; return Cancelled
AggCheckCancel ==
  /\ Joining
  /\ apc \in {"wait", "top"}
  /\ IF flag
     THEN \E ok \in BOOLEAN :
            /\ calls' = Append(calls, Call("on_accidential_stop", FALSE, ok))
            /\ AggEnd(IF ok THEN "Cancelled" ELSE "HandlerError")
     ELSE /\ apc' = "poll"
          /\ UNCHANGED <<calls, a_result, progress_open>>
  /\ errors' = failed(IF apc' = "done" THEN a_result' ELSE "")
  /\ UNCHANGED <<others, inputs, pc, result, interrupted, flag, abort_fired,
                 workerVars, progress, hit_chan, main_hit_tx, store,
                 counterVars, a_abort, n_handle, seen, joined, hits_detail,
                 detail_src, seqVars,
                 tested, generated, intr_early>>

\* all_done of the handle call made once drain_complete is seen
agg_final_all_done == TRUE

\* if drain_complete: final handle call, leave the loop;
\* else if the interval has not elapsed: yield (a pending abort takes effect);
\* else the periodic handle call
AggPoll ==
  /\ Joining
  /\ apc = "poll"
  /\ IF count_stopped
     THEN \E ok \in BOOLEAN :
            /\ calls' = Append(calls, Call("handle", agg_final_all_done, ok))
            /\ IF ok
               THEN /\ apc' = "after"
                    /\ UNCHANGED <<a_result, progress_open>>
               ELSE AggEnd("HandlerError")
            /\ UNCHANGED <<n_handle, seen>>
     ELSE \/ /\ apc' = IF a_abort THEN "cancelled" ELSE "wait"
             /\ progress_open' = (progress_open /\ ~a_abort)
             /\ UNCHANGED <<calls, a_result, n_handle, seen>>
          \/ /\ n_handle < MaxHandle
             /\ n_handle' = n_handle + 1
             /\ seen' = progress
             /\ \E ok \in BOOLEAN :
                  /\ calls' = Append(calls, Call("handle", FALSE, ok))
                  /\ IF ok
                     THEN /\ apc' = "top"
                          /\ UNCHANGED <<a_result, progress_open>>
                     ELSE AggEnd("HandlerError")
  /\ errors' = failed(IF apc' = "done" THEN a_result'
                      ELSE IF apc' = "cancelled" THEN "Cancelled" ELSE "")
  /\ UNCHANGED <<others, inputs, pc, result, interrupted, flag, abort_fired,
                 workerVars, progress, hit_chan, main_hit_tx, store,
                 counterVars, a_abort, joined, hits_detail, detail_src, seqVars,
                 tested, generated, intr_early>>

\* render.invoke_after_finish()
AggAfterFinish ==
  /\ Joining
  /\ apc = "after"
  /\ \E ok \in BOOLEAN :
       /\ calls' = Append(calls, Call("after_finish", FALSE, ok))
       /\ AggEnd(IF ok THEN "Ok" ELSE "HandlerError")
       /\ errors' = failed(IF ok THEN "" ELSE "HandlerError")
  /\ UNCHANGED <<others, inputs, pc, result, interrupted, flag, abort_fired,
                 workerVars, progress, hit_chan, main_hit_tx, store,
                 counterVars, a_abort, n_handle, seen, joined, hits_detail,
                 detail_src, seqVars,
                 tested, generated, intr_early>>

\* ------------------------------------------------------------------ joins
\* hits_detail after the hits of one more joined worker
extend_detail(detail, k) == detail \o whits[k]

\* worker_join_set.join_next(): the next worker task that ended, in the order
\* the tasks ended
JoinWorker ==
  /\ pc = "join_workers"
  /\ done_q # <<>>
  /\ LET k == Head(done_q) IN
     /\ done_q' = Tail(done_q)
     /\ joined' = joined \cup {k}
     /\ IF wpc[k] = "done"
        THEN /\ hits_detail' = extend_detail(hits_detail, k)
             /\ detail_src' = detail_src \o [n \in 1..Len(whits[k]) |-> k]
             /\ pc' = IF joined' = WorkerIds THEN "join_counter" ELSE pc
             /\ UNCHANGED result
        ELSE /\ result' = Err(IF wpc[k] = "cancelled" THEN "Cancelled"
                              ELSE "WorkerError")
             /\ pc' = "returned"
             /\ UNCHANGED <<hits_detail, detail_src>>
  /\ UNCHANGED <<others, inputs, calls, interrupted, flag, abort_fired, wpc, wi, whits,
                 progress, progress_open, hit_chan, main_hit_tx, store,
                 counterVars, aggVars, seqVars, tested, generated, intr_early, errors>>

\* hit_join_set.join_next()
JoinCounter ==
  /\ pc = "join_counter"
  /\ cpc \in {"done", "cancelled"}
  /\ IF cpc = "done"
     THEN pc' = "join_ui" /\ UNCHANGED result
     ELSE pc' = "returned" /\ result' = Err("Cancelled")
  /\ UNCHANGED <<others, inputs, calls, interrupted, flag, abort_fired, workerVars,
                 progress, progress_open, hit_chan, main_hit_tx, store,
                 counterVars, aggVars, joined, hits_detail, detail_src, seqVars, tested, generated, intr_early, errors>>

\* ui_join_set.join_next(), then the snapshot of the hit store and the result
JoinUi ==
  /\ pc = "join_ui"
  /\ apc \in {"done", "cancelled"}
  /\ pc' = "returned"
  /\ result' = IF apc = "cancelled" THEN Err("Cancelled")
               ELSE IF a_result # "Ok" THEN Err(a_result)
               ELSE Ok(tries, store, hits_detail)
  /\ UNCHANGED <<others, inputs, calls, interrupted, flag, abort_fired, workerVars,
                 progress, progress_open, hit_chan, main_hit_tx, store,
                 counterVars, aggVars, joined, hits_detail, detail_src, seqVars, tested, generated, intr_early, errors>>

\* ------------------------------------------------------------------ run_seq
\* Render::render_progress: whether the handler is called.  A zero interval
\* always calls it; otherwise nothing is done while the interval has not
\* elapsed (either outcome is possible) and a Done progress is never rendered.
render_calls(zero, kind) ==
  IF zero THEN {TRUE}
  ELSE IF kind = "Done" THEN {FALSE}
  ELSE {TRUE, FALSE}

\* all_done of the last render_progress call of run_seq
seq_final_all_done_false == FALSE
seq_final_all_done == TRUE

\* ctrlc::set_handler and the first render_progress (Idle)
SeqIdle ==
  /\ pc = "seq_idle"
  /\ ctrlc_set' = TRUE
  /\ \E do \in render_calls(interval_zero, "Idle") :
       IF do
       THEN \E ok \in BOOLEAN :
              /\ calls' = Append(calls, Call("handle", FALSE, ok))
              /\ pc' = IF ok THEN "seq_loop" ELSE "returned"
              /\ result' = IF ok THEN result ELSE Err("HandlerError")
       ELSE /\ pc' = "seq_loop"
            /\ UNCHANGED <<calls, result>>
  /\ UNCHANGED <<others, inputs, interrupted, flag, abort_fired, workerVars, progress,
                 progress_open, hit_chan, main_hit_tx, store, counterVars,
                 aggVars, joined, hits_detail, detail_src, seq_i, stop_chan, tested, generated, intr_early>>
  /\ errors' = failed(IF result'.kind = "Err" THEN result'.error ELSE "")

\* the accidential_stop_rx.try_recv() test of the loop body
stop_seen(n) == n > 0

\* one element of the iterator chain of run_seq: gen, render_progress
\* (Processing), the try_recv of the stop channel, check and handle_hit
SeqIter ==
  /\ pc = "seq_loop"
  /\ seq_i < tries
  /\ tested' = [tested EXCEPT ![seq_i] = @ + 1]
  /\ \E wakuchin \in Candidates, do \in render_calls(interval_zero, "Processing"),
        ok \in BOOLEAN :
       /\ do \/ ok
       /\ generated' = generated \cup {wakuchin}
       /\ calls' = IF do THEN Append(calls, Call("handle", FALSE, ok)) ELSE calls
       /\ IF ~ok
          THEN /\ pc' = "returned"
               /\ result' = Err("HandlerError")
               /\ UNCHANGED <<stop_chan, hits_detail, detail_src, store, seq_i>>
          ELSE IF stop_seen(stop_chan)
          THEN /\ stop_chan' = stop_chan - 1
               /\ pc' = "stopping"
               /\ UNCHANGED <<result, hits_detail, detail_src, store, seq_i>>
          ELSE /\ IF check(wakuchin, regex)
                  THEN /\ hits_detail' =
                            Append(hits_detail, Hit_new(seq_i, wakuchin))
                       /\ detail_src' = Append(detail_src, 0)
                       /\ store' = store_add(store, wakuchin)
                  ELSE UNCHANGED <<hits_detail, detail_src, store>>
               /\ seq_i' = seq_i + 1
               /\ pc' = IF seq_i' = tries THEN "seq_final" ELSE pc
               /\ UNCHANGED <<result, stop_chan>>
  /\ UNCHANGED <<others, inputs, interrupted, flag, abort_fired, workerVars, progress,
                 progress_open, hit_chan, main_hit_tx, counterVars, aggVars,
                 joined, ctrlc_set, intr_early>>
  /\ errors' = failed(IF result'.kind = "Err" THEN result'.error ELSE "")

\* render.invoke_on_accidential_stop()?; return Err(Cancelled)
SeqStop ==
  /\ pc = "stopping"
  /\ \E ok \in BOOLEAN :
       /\ calls' = Append(calls, Call("on_accidential_stop", FALSE, ok))
       /\ result' = Err(IF ok THEN "Cancelled" ELSE "HandlerError")
  /\ pc' = "returned"
  /\ UNCHANGED <<others, inputs, interrupted, flag, abort_fired, workerVars, progress,
                 progress_open, hit_chan, main_hit_tx, store, counterVars,
                 aggVars, joined, hits_detail, detail_src, seqVars, tested, generated, intr_early>>
  /\ errors' = failed(IF result'.kind = "Err" THEN result'.error ELSE "")

\* render.render_progress(Duration::ZERO, Done, true)
SeqFinal ==
  /\ pc = "seq_final"
  /\ \E ok \in BOOLEAN :
       /\ calls' = Append(calls, Call("handle", seq_final_all_done, ok))
       /\ pc' = IF ok THEN "seq_after" ELSE "returned"
       /\ result' = IF ok THEN result ELSE Err("HandlerError")
  /\ UNCHANGED <<others, inputs, interrupted, flag, abort_fired, workerVars, progress,
                 progress_open, hit_chan, main_hit_tx, store, counterVars,
                 aggVars, joined, hits_detail, detail_src, seqVars, tested, generated, intr_early>>
  /\ errors' = failed(IF result'.kind = "Err" THEN result'.error ELSE "")

\* render.invoke_after_finish(), render.hits() and the result
SeqAfterFinish ==
  /\ pc = "seq_after"
  /\ \E ok \in BOOLEAN :
       /\ calls' = Append(calls, Call("after_finish", FALSE, ok))
       /\ result' = IF ok THEN Ok(tries, store, hits_detail)
                    ELSE Err("HandlerError")
  /\ pc' = "returned"
  /\ UNCHANGED <<others, inputs, interrupted, flag, abort_fired, workerVars, progress,
                 progress_open, hit_chan, main_hit_tx, store, counterVars,
                 aggVars, joined, hits_detail, detail_src, seqVars, tested, generated, intr_early>>
  /\ errors' = failed(IF result'.kind = "Err" THEN result'.error ELSE "")

\* ------------------------------------------------------------------ spec
Next ==
  \/ Enter
  \/ InvokeBeforeStart
  \/ Spawn
  \/ Interrupt
  \/ AbortAll
  \/ \E k \in DOMAIN wpc : WorkerIter(k)
  \/ \E k \in DOMAIN wpc : WorkerDropTx(k)
  \/ \E k \in DOMAIN wpc : WorkerSendDone(k)
  \/ CounterRecv
  \/ AggCheckCancel
  \/ AggPoll
  \/ AggAfterFinish
  \/ JoinWorker
  \/ JoinCounter
  \/ JoinUi
  \/ SeqIdle
  \/ SeqIter
  \/ SeqStop
  \/ SeqFinal
  \/ SeqAfterFinish

Spec == Init /\ [][Next]_vars

\* ------------------------------------------------------------------ fairness
\* The tokio runtime polls every spawned task that is ready, and the caller
\* of run_par keeps being polled: each task and the engine take their next
\* step when one stays possible.  The operator interrupt is not fair.
EngineStep ==
  \/ Enter \/ InvokeBeforeStart \/ Spawn
  \/ JoinWorker \/ JoinCounter \/ JoinUi
  \/ SeqIdle \/ SeqIter \/ SeqStop \/ SeqFinal \/ SeqAfterFinish
WorkerStep(k) ==
  k \in DOMAIN wpc /\ (WorkerIter(k) \/ WorkerDropTx(k) \/ WorkerSendDone(k))
AggStep == AggCheckCancel \/ AggPoll \/ AggAfterFinish

SpecFair ==
  /\ Spec
  /\ WF_vars(EngineStep)
  /\ \A k \in 1..MaxWorkers : WF_vars(WorkerStep(k))
  /\ WF_vars(CounterRecv)
  /\ WF_vars(AggStep)
  /\ WF_vars(AbortAll)

\* ------------------------------------------------------------------ ThreadRender
\* render.rs with the workers of worker/mod.rs: the workers publish their
\* progress and send their hits on the hit channel,
\* ThreadRenderInner::wait_for_hit forwards the hits to the internal channel
\* and sends the stop message when the hit channel is disconnected, and
\* ThreadRender::start_render_progress counts the forwarded hits, reads the
\* progress channels and calls the progress handler.
MaxHits == 3

\* hit_counter.entry(chars).or_insert(..).hits += 1, for every hit of a queue
RECURSIVE count_hits(_, _)
count_hits(counter, queue) ==
  IF queue = <<>> THEN counter
  ELSE count_hits([counter EXCEPT ![Head(queue)] = @ + 1], Tail(queue))

MaxReads == 3

\* DiffStore::update (utils.rs): new - previous in usize.  A negative ret here
\* is the underflow of that subtraction.
DiffStore_update_keeps_previous(previous, new) ==
  [ret |-> new - previous, previous |-> previous]
DiffStore_update(previous, new) == [ret |-> new - previous, previous |-> new]

\* the clamp of worker/mod.rs: the workers of a run with that many tries
render_workers(w, t) == IF t < w THEN t ELSE w

\* what a worker of the render's run publishes on its progress channel
RIdle(id) == [kind |-> "Idle", id |-> id, current |-> 0, total |-> 0]
RProcessing(id, cur, tot) ==
  [kind |-> "Processing", id |-> id, current |-> cur, total |-> tot]
RDone(id, tot) == [kind |-> "Done", id |-> id, current |-> 0, total |-> tot]

\* the contribution of a progress to current_ (render.rs 150-173)
current_of(p) ==
  IF p.kind = "Processing" THEN p.current
  ELSE IF p.kind = "Done" THEN p.total ELSE 0

RECURSIVE sum_current(_)
sum_current(ps) ==
  IF ps = <<>> THEN 0 ELSE current_of(Head(ps)) + sum_current(Tail(ps))

\* total_ after the progresses were read in order: the total of the last one
\* that is not Idle; None is written -1
None == -1
RECURSIVE last_total(_, _)
last_total(ps, total_) ==
  IF ps = <<>> THEN total_
  ELSE last_total(Tail(ps),
                  IF Head(ps).kind = "Idle" THEN total_ ELSE Head(ps).total)

unwrap_or(opt, default) == IF opt = None THEN default ELSE opt

\* the progresses of the final call: (0..progress_channels.len()).map(|id| Done)
final_progresses(n, total_) ==
  [p \in 1..n |-> RDone(p - 1, unwrap_or(total_, 1))]

NoCall ==
  [calls |-> 0, all_done |-> FALSE, hits |-> EmptyStore, progresses |-> <<>>,
   elapsed |-> "", current_diff |-> 0]

InitRender ==
  /\ NoRun
  /\ even_divisions = NoDivisions
  /\ hit_store = NoObject /\ builder = NoObject /\ process = NoObject
  /\ generator = NoObject /\ converter = NoObject
  /\ seq_render = NoObject /\ console = NoObject /\ handler = NoObject
  /\ \E t \in 1..MaxHits, w \in 1..MaxWorkers :
       LET n == render_workers(w, t) IN
       thread_render =
         [used |-> TRUE,
          tries |-> t,
          total |-> [k \in 1..n |-> range_hi(t, n, k) - range_lo(t, n, k)],
          wpc |-> [k \in 1..n |-> "loop"],
          wi |-> [k \in 1..n |-> 0],
          progress_channels |-> [k \in 1..n |-> RIdle(k)],
          hit_tx |-> TRUE,             \* the workers still hold a hit sender
          sent |-> EmptyStore,         \* observer: hits in the workers' lists
          hit_rx |-> <<>>,             \* the hit channel
          internal_hit_rx |-> <<>>,    \* the internal hit channel
          stop_rx |-> 0,               \* messages in the stop channel
          hit_counter |-> EmptyStore,
          wait_for_hit |-> "run",
          render |-> "run",
          total_ |-> None,
          current_diff |-> 0,          \* DiffStore.previous
          diffs |-> 0,                 \* observer: sum of the current_diff given
          handled |-> NoCall]

\* the workers of the render's run
RenderWorkers == DOMAIN thread_render.wpc

\* one iteration of worker k: progress_tx.send(Processing(i)), then the hit,
\* if the candidate matches, is sent on the hit channel and pushed
RenderWorkerIter(k) ==
  /\ thread_render.used /\ thread_render.wpc[k] = "loop"
  /\ thread_render.wi[k] < thread_render.total[k]
  /\ \E hit \in BOOLEAN, wakuchin \in Candidates :
       thread_render' =
         [thread_render EXCEPT
            !.progress_channels[k] =
               RProcessing(k, thread_render.wi[k], thread_render.total[k]),
            !.wi[k] = @ + 1,
            !.hit_rx = IF hit THEN Append(@, wakuchin) ELSE @,
            !.sent = IF hit THEN store_add(@, wakuchin) ELSE @]
  /\ UNCHANGED besidesRender

\* drop(hit_tx) of worker k after its loop; the engine's own sender is dropped
\* right after the tasks are spawned
RenderWorkerDrop(k) ==
  /\ thread_render.used /\ thread_render.wpc[k] = "loop"
  /\ thread_render.wi[k] = thread_render.total[k]
  /\ thread_render' =
       [thread_render EXCEPT
          !.wpc[k] = "dropped",
          !.hit_tx = \E j \in RenderWorkers \ {k} : thread_render.wpc[j] = "loop"]
  /\ UNCHANGED besidesRender

\* progress_tx.send(Done) of worker k
RenderWorkerDone(k) ==
  /\ thread_render.used /\ thread_render.wpc[k] = "dropped"
  /\ thread_render' =
       [thread_render EXCEPT
          !.wpc[k] = "done",
          !.progress_channels[k] = RDone(k, thread_render.total[k])]
  /\ UNCHANGED besidesRender

\* ThreadRenderInner::wait_for_hit: one try_recv that is not Empty
WaitForHit ==
  /\ thread_render.used /\ thread_render.wait_for_hit = "run"
  /\ IF thread_render.hit_rx # <<>>
     THEN thread_render' =
            [thread_render EXCEPT
               !.hit_rx = Tail(@),
               !.internal_hit_rx = Append(@, Head(thread_render.hit_rx))]
     ELSE /\ ~thread_render.hit_tx
          /\ thread_render' = [thread_render EXCEPT !.stop_rx = @ + 1,
                                                    !.wait_for_hit = "done"]
  /\ UNCHANGED besidesRender

\* ThreadRender::start_render_progress: one turn of the loop.  The stop test
\* comes first and makes the final handler call; otherwise the internal
\* channel is drained into hit_counter and, when the interval has elapsed,
\* the progress channels are read and the periodic handler call is made.
StartRenderProgress ==
  /\ thread_render.used /\ thread_render.render = "run"
  /\ IF thread_render.stop_rx > 0
     THEN thread_render' =
            [thread_render EXCEPT
               !.stop_rx = @ - 1,
               !.render = "done",
               !.handled =
                  [calls |-> thread_render.handled.calls + 1, all_done |-> TRUE,
                   hits |-> thread_render.hit_counter,
                   progresses |->
                     final_progresses(Len(thread_render.progress_channels),
                                      thread_render.total_),
                   elapsed |-> "interval",
                   current_diff |-> 0]]
     ELSE LET counted == count_hits(thread_render.hit_counter,
                                    thread_render.internal_hit_rx)
              progresses == thread_render.progress_channels
              diff == DiffStore_update(thread_render.current_diff,
                                       sum_current(progresses))
          IN \E elapsed \in IF thread_render.handled.calls < MaxReads
                            THEN BOOLEAN ELSE {FALSE} :
               thread_render' =
                 IF elapsed
                 THEN [thread_render EXCEPT
                         !.hit_counter = counted,
                         !.internal_hit_rx = <<>>,
                         !.total_ = last_total(progresses, @),
                         !.current_diff = diff.previous,
                         !.diffs = @ + diff.ret,
                         !.handled =
                            [calls |-> thread_render.handled.calls + 1,
                             all_done |-> FALSE,
                             hits |-> counted,
                             progresses |-> progresses,
                             elapsed |-> "interval",
                             current_diff |-> diff.ret]]
                 ELSE [thread_render EXCEPT
                         !.hit_counter = counted,
                         !.internal_hit_rx = <<>>]
  /\ UNCHANGED besidesRender

NextRender ==
  \/ \E k \in RenderWorkers : RenderWorkerIter(k)
  \/ \E k \in RenderWorkers : RenderWorkerDrop(k)
  \/ \E k \in RenderWorkers : RenderWorkerDone(k)
  \/ WaitForHit
  \/ StartRenderProgress

SpecRender == InitRender /\ [][NextRender]_vars

\* ------------------------------------------------------------------ EvenDivisions
\* (0..tries).divide_evenly_into(total_workers) on its own: the iterator that
\* yields the ranges of the workers, one range per call of next()
MaxLen == 8
MaxDivisions == 4

\* the range yielded for a division of `len` indices starting at `start`
division_range_from_zero(start, len) == [lo |-> 0, hi |-> start + len]
division_range(start, len) == [lo |-> start, hi |-> start + len]

InitDivide ==
  /\ NoRun
  /\ thread_render = NoRender
  /\ hit_store = NoObject /\ builder = NoObject /\ process = NoObject
  /\ generator = NoObject /\ converter = NoObject
  /\ seq_render = NoObject /\ console = NoObject /\ handler = NoObject
  /\ \E len \in 1..MaxLen, n \in 1..MaxDivisions :
       even_divisions = [start |-> 0, end |-> len, remaining |-> n,
                         yielded |-> <<>>]

\* EvenDivisions::next
DivisionsNext ==
  /\ even_divisions.remaining > 0
  /\ LET len == division_len(even_divisions.end - even_divisions.start,
                             even_divisions.remaining)
     IN even_divisions' =
          [even_divisions EXCEPT
             !.start = @ + len,
             !.remaining = @ - 1,
             !.yielded = Append(@, division_range(even_divisions.start, len))]
  /\ UNCHANGED besidesDivisions

NextDivide == DivisionsNext

SpecDivide == InitDivide /\ [][NextDivide]_vars

\* ------------------------------------------------------------------ HitStore
\* hit/store.rs on its own: callers that add texts to a HitStore (counts are
\* AtomicUsize) or a SyncHitStore (counts are usize) while another caller
\* takes a snapshot with get_all.  DashMap::entry holds the write lock of the
\* shard of the key until the returned reference is dropped; DashMap::iter
\* reads one shard at a time under its read lock.  Every text has its own
\* shard here.
MaxAdds == 3
Callers == 1..2
StoreKinds == {"HitStore", "SyncHitStore"}
Absent == -1

\* the write lock of the shard is held from entry() to the end of add
add_releases_lock_early == FALSE
add_holds_lock == TRUE

\* HitStore::add, first half: entry(chars).or_insert_with(|| AtomicUsize::new(0))
or_insert_zero(map, chars) ==
  IF map[chars] = Absent THEN [map EXCEPT ![chars] = 0] ELSE map
\* HitStore::add, second half: fetch_add(1, Relaxed)
fetch_add(map, chars) == [map EXCEPT ![chars] = @ + 1]
\* SyncHitStore::add: entry(chars).and_modify(|hits| *hits += 1).or_insert(1)
and_modify_or_insert(map, chars) ==
  [map EXCEPT ![chars] = IF @ = Absent THEN 1 ELSE @ + 1]

\* the order in which the texts entered the map: a text is appended by the
\* add call that finds no entry for it
first_seen(first, map, chars) ==
  IF map[chars] = Absent THEN Append(first, chars) ELSE first

InitStore ==
  /\ NoRun
  /\ even_divisions = NoDivisions /\ thread_render = NoRender
  /\ builder = NoObject /\ process = NoObject
  /\ generator = NoObject /\ converter = NoObject
  /\ seq_render = NoObject /\ console = NoObject /\ handler = NoObject
  /\ \E kind \in StoreKinds :
       hit_store =
         [used |-> TRUE,
          kind |-> kind,
          map |-> [t \in Candidates |-> Absent],
          locked |-> {},                          \* shards under a write lock
          adding |-> [c \in Callers |-> ""],      \* the text a caller is adding
          started |-> EmptyStore,                 \* observer: add calls begun
          returned |-> EmptyStore,                \* observer: add calls ended
          todo |-> {},                            \* get_all: shards still to read
          got |-> {},                             \* get_all: entries collected
          vec |-> <<>>,                           \* get_all: the Vec, in order
          first |-> <<>>]                         \* observer: texts as first added

\* caller c calls add(chars); for a HitStore this step takes the shard lock
\* and inserts the zero counter, for a SyncHitStore it is the whole call
StoreAdd(c) ==
  /\ hit_store.used /\ hit_store.adding[c] = ""
  /\ hits_sum(hit_store.started) < MaxAdds
  /\ \E chars \in Candidates :
       /\ chars \notin hit_store.locked
       /\ hit_store' =
            IF hit_store.kind = "HitStore"
            THEN [hit_store EXCEPT
                    !.map = or_insert_zero(@, chars),
                    !.locked = @ \cup {chars},
                    !.adding[c] = chars,
                    !.started = store_add(@, chars),
                    !.first = first_seen(@, hit_store.map, chars)]
            ELSE [hit_store EXCEPT
                    !.map = and_modify_or_insert(@, chars),
                    !.started = store_add(@, chars),
                    !.returned = store_add(@, chars),
                    !.first = first_seen(@, hit_store.map, chars)]
  /\ UNCHANGED besidesStore

\* HitStore::add, the fetch_add and the release of the shard lock
StoreAddFinish(c) ==
  /\ hit_store.used /\ hit_store.adding[c] # ""
  /\ LET chars == hit_store.adding[c] IN
       hit_store' = [hit_store EXCEPT
                       !.map = fetch_add(@, chars),
                       !.locked = @ \ {chars},
                       !.adding[c] = "",
                       !.returned = store_add(@, chars)]
  /\ UNCHANGED besidesStore

\* get_all: self.map.iter() starts
StoreGetAll ==
  /\ hit_store.used /\ hit_store.todo = {}
  /\ hit_store' = [hit_store EXCEPT !.todo = Candidates, !.got = {},
                                    !.vec = <<>>]
  /\ UNCHANGED besidesStore

\* get_all: the iterator reads the next shard and collects its entry.  The
\* shard of a key and its bucket are chosen by the hash of the key under the
\* map's RandomState, so the shards are met in an order that does not depend
\* on the order of the insertions.
StoreIterNext ==
  /\ hit_store.used
  /\ \E chars \in hit_store.todo :
       /\ add_holds_lock => chars \notin hit_store.locked
       /\ hit_store' =
            [hit_store EXCEPT
               !.todo = @ \ {chars},
               !.got = IF hit_store.map[chars] = Absent THEN @
                       ELSE @ \cup {[chars |-> chars,
                                     hits |-> hit_store.map[chars],
                                     begun |-> hit_store.started[chars]]},
               !.vec = IF hit_store.map[chars] = Absent THEN @
                       ELSE Append(@, chars)]
  /\ UNCHANGED besidesStore

NextStore ==
  \/ \E c \in Callers : StoreAdd(c)
  \/ \E c \in Callers : StoreAddFinish(c)
  \/ StoreGetAll
  \/ StoreIterNext

SpecStore == InitStore /\ [][NextStore]_vars

\* --------------------------------------------------------- ResearchBuilder
\* builder.rs on its own.  The type parameters Tries, Times and TRegex are
\* part of the state: "()" before the input is set, "usize" / "Regex" after.
\* A method can be called when an impl block that defines it covers the type of
\* the builder.
MaxCalls == 4
Intervals == {500, 0}          \* milliseconds
Handlers == {"empty_progress_handler", "custom"}
RequiredSetters == {"tries", "times", "regex"}
OptionalSetters == {"progress_handler", "progress_interval", "workers"}
RunMethods == {"run_par", "run_seq"}

\* impl<Tries, Times, TRegex> ResearchBuilder<Tries, Times, TRegex>
impl_generic(b) == TRUE
impl_complete_without_regex(b) == b.Tries = "usize" /\ b.Times = "usize"
\* impl ResearchBuilder<usize, usize, Regex>
impl_complete(b) == b.Tries = "usize" /\ b.Times = "usize" /\ b.TRegex = "Regex"

\* the methods a builder of this type has
Offers(b, method) ==
  \/ method \in RequiredSetters \cup OptionalSetters /\ impl_generic(b)
  \/ method \in RunMethods /\ impl_complete(b)

\* ResearchBuilder::new
InitBuilder ==
  /\ NoRun
  /\ even_divisions = NoDivisions /\ thread_render = NoRender
  /\ hit_store = NoObject /\ process = NoObject
  /\ generator = NoObject /\ converter = NoObject
  /\ seq_render = NoObject /\ console = NoObject /\ handler = NoObject
  /\ builder = [used |-> TRUE,
                Tries |-> "()", Times |-> "()", TRegex |-> "()",
                tries |-> 0, times |-> 0, regex |-> {},
                progress_handler |-> "empty_progress_handler",
                progress_interval |-> 500,
                workers |-> 0,
                called |-> <<>>,      \* observer: the methods called so far
                run |-> ""]           \* the entry point that consumed it

BuilderLive == builder.used /\ builder.run = "" /\ Len(builder.called) < MaxCalls

BuilderTries ==
  /\ BuilderLive /\ Offers(builder, "tries")
  /\ \E v \in 0..MaxTries :
       builder' = [builder EXCEPT !.Tries = "usize", !.tries = v,
                                  !.called = Append(@, "tries")]
  /\ UNCHANGED besidesBuilder

BuilderTimes ==
  /\ BuilderLive /\ Offers(builder, "times")
  /\ \E v \in Times :
       builder' = [builder EXCEPT !.Times = "usize", !.times = v,
                                  !.called = Append(@, "times")]
  /\ UNCHANGED besidesBuilder

BuilderRegex ==
  /\ BuilderLive /\ Offers(builder, "regex")
  /\ \E v \in Regexes :
       builder' = [builder EXCEPT !.TRegex = "Regex", !.regex = v,
                                  !.called = Append(@, "regex")]
  /\ UNCHANGED besidesBuilder

BuilderProgressHandler ==
  /\ BuilderLive /\ Offers(builder, "progress_handler")
  /\ builder' = [builder EXCEPT !.progress_handler = "custom",
                                !.called = Append(@, "progress_handler")]
  /\ UNCHANGED besidesBuilder

BuilderProgressInterval ==
  /\ BuilderLive /\ Offers(builder, "progress_interval")
  /\ \E v \in Intervals :
       builder' = [builder EXCEPT !.progress_interval = v,
                                  !.called = Append(@, "progress_interval")]
  /\ UNCHANGED besidesBuilder

BuilderWorkers ==
  /\ BuilderLive /\ Offers(builder, "workers")
  /\ \E v \in 0..MaxWorkers :
       builder' = [builder EXCEPT !.workers = v,
                                  !.called = Append(@, "workers")]
  /\ UNCHANGED besidesBuilder

\* run_par(self) / run_seq(self): the builder is consumed and its fields are
\* the arguments of the entry point
BuilderRun(method) ==
  /\ builder.used /\ builder.run = "" /\ Offers(builder, method)
  /\ builder' = [builder EXCEPT !.run = method]
  /\ UNCHANGED besidesBuilder

NextBuilder ==
  \/ BuilderTries
  \/ BuilderTimes
  \/ BuilderRegex
  \/ BuilderProgressHandler
  \/ BuilderProgressInterval
  \/ BuilderWorkers
  \/ \E method \in RunMethods : BuilderRun(method)

SpecBuilder == InitBuilder /\ [][NextBuilder]_vars

\* ------------------------------------------------------------------ process
\* Several runs, one after the other, in one process, with what outlives a
\* run: the handler given to ctrlc::set_handler (one per process, run on a
\* thread of its own) and the tasks of run_par that wait for
\* tokio::signal::ctrl_c.  A run is reduced to its validation, the
\* installation, its iterations and its return.
MaxRuns == 3
MaxSteps == 2
MaxSignals == 2

NoHandler == 0

InitProcess ==
  /\ NoRun
  /\ even_divisions = NoDivisions /\ thread_render = NoRender
  /\ hit_store = NoObject /\ builder = NoObject
  /\ generator = NoObject /\ converter = NoObject
  /\ seq_render = NoObject /\ console = NoObject /\ handler = NoObject
  /\ process = [used |-> TRUE,
                ctrlc |-> NoHandler,      \* the run whose closure ctrlc holds
                ctrlc_thread |-> "waiting",
                listeners |-> {},         \* runs with a live ctrl_c task
                n |-> 0,                  \* runs started
                mode |-> "",
                pc |-> "idle",
                i |-> 0,
                chan |-> 0,               \* run_seq: messages in the oneshot
                stop |-> FALSE,           \* run_par: accidential_stop
                signals |-> 0,
                results |-> <<>>]

\* the receiver of the oneshot channel of the closure held by ctrlc is alive
stop_rx_alive ==
  process.pc = "loop" /\ process.mode = "seq" /\ process.ctrlc = process.n

ProcReturn(kind, error) ==
  [mode |-> process.mode, kind |-> kind, error |-> error]

\* what a return of run_seq does to the thread of ctrlc: a send that waits on
\* the full channel fails when the receiver is dropped, and the unwrap panics
thread_after_return ==
  IF stop_rx_alive /\ process.ctrlc_thread = "blocked" THEN "panicked"
  ELSE process.ctrlc_thread

\* run_par / run_seq is called: validation and before_start
ProcStart(m) ==
  /\ process.used /\ process.pc = "idle"
  /\ Len(process.results) < MaxRuns
  /\ \E t \in {0, MaxSteps} :
       process' =
         IF t = 0
         THEN [process EXCEPT
                 !.n = @ + 1,
                 !.results = Append(@, [mode |-> m, kind |-> "Ok", error |-> ""])]
         ELSE [process EXCEPT
                 !.n = @ + 1, !.mode = m, !.pc = "start", !.i = 0,
                 !.chan = 0, !.stop = FALSE]
  /\ UNCHANGED besidesProcess

\* run_seq: ctrlc::set_handler(..).map_err(..)?   run_par: the task waiting for
\* signal::ctrl_c is spawned
ProcInstall ==
  /\ process.used /\ process.pc = "start"
  /\ process' =
       IF process.mode = "par"
       THEN [process EXCEPT !.listeners = @ \cup {process.n}, !.pc = "loop"]
       ELSE IF process.ctrlc # NoHandler
       THEN [process EXCEPT
               !.pc = "idle",
               !.results = Append(@, ProcReturn("Err", "Other"))]
       ELSE [process EXCEPT !.ctrlc = process.n, !.pc = "loop"]
  /\ UNCHANGED besidesProcess

\* one iteration of the run, or its return with Cancelled
ProcIterate ==
  /\ process.used /\ process.pc = "loop" /\ process.i < MaxSteps
  /\ \/ /\ process.mode = "seq" /\ process.chan > 0
        /\ process' = [process EXCEPT
                         !.chan = 0, !.pc = "idle",
                         !.ctrlc_thread = thread_after_return,
                         !.results = Append(@, ProcReturn("Err", "Cancelled"))]
     \/ /\ process.mode = "par" /\ process.stop
        /\ process' = [process EXCEPT
                         !.pc = "idle",
                         !.listeners = @ \ {process.n},
                         !.results = Append(@, ProcReturn("Err", "Cancelled"))]
     \/ /\ process.mode = "seq" => process.chan = 0
        /\ process' = [process EXCEPT !.i = @ + 1]
  /\ UNCHANGED besidesProcess

\* the run returns Ok; run_par aborts and joins signal_join_set first
ProcReturnOk ==
  /\ process.used /\ process.pc = "loop" /\ process.i = MaxSteps
  /\ process' = [process EXCEPT
                   !.pc = "idle",
                   !.ctrlc_thread = thread_after_return,
                   !.listeners = IF process.mode = "par" THEN @ \ {process.n}
                                 ELSE @,
                   !.results = Append(@, ProcReturn("Ok", ""))]
  /\ UNCHANGED besidesProcess

\* the interrupt signal is delivered to the process while something handles it
ProcCtrlC ==
  /\ process.used /\ process.signals < MaxSignals
  /\ process.ctrlc # NoHandler \/ process.listeners # {}
  /\ process' =
       [process EXCEPT
          !.signals = @ + 1,
          \* tokio: the ctrl_c task of the run sends true and ends
          !.stop = @ \/ process.n \in process.listeners,
          !.listeners = {},
          \* ctrlc: the closure runs accidential_stop_tx.send(()).unwrap()
          !.chan = IF process.ctrlc # NoHandler /\ process.ctrlc_thread = "waiting"
                      /\ stop_rx_alive
                   THEN 1 ELSE @,
          !.ctrlc_thread =
             IF process.ctrlc = NoHandler \/ @ # "waiting" THEN @
             ELSE IF ~stop_rx_alive THEN "panicked"
             ELSE IF process.chan > 0 THEN "blocked"
             ELSE "waiting"]
  /\ UNCHANGED besidesProcess

NextProcess ==
  \/ \E m \in Modes : ProcStart(m)
  \/ ProcInstall
  \/ ProcIterate
  \/ ProcReturnOk
  \/ ProcCtrlC

SpecProcess == InitProcess /\ [][NextProcess]_vars

\* ---------------------------------------------------------------------- gen
\* lib.rs: gen(times) on its own, with the shuffle of rand's SliceRandom step
\* by step: for i from len - 1 down to 1, swap(i, j) with j drawn from 0..=i.
\* A string is a sequence of characters; indices are 1-based here.
MaxTimes == 2

WAKUCHIN_first_three == <<"W", "K", "C">>
\* symbol::WAKUCHIN
WAKUCHIN == <<"W", "K", "C", "N">>

\* symbol::WAKUCHIN.iter().cycle().take(n).collect()
cycle_take(n) == [p \in 1..n |-> WAKUCHIN[((p - 1) % Len(WAKUCHIN)) + 1]]

\* slice.swap(a, b)
swap(v, a, b) == [v EXCEPT ![a] = v[b], ![b] = v[a]]

\* lib.rs validate: wakuchin.chars().all(|c| symbol::WAKUCHIN.contains(&c))
validate_chars(wakuchin) ==
  \A p \in 1..Len(wakuchin) : \E q \in 1..Len(WAKUCHIN) : wakuchin[p] = WAKUCHIN[q]

InitGen ==
  /\ NoRun
  /\ even_divisions = NoDivisions /\ thread_render = NoRender
  /\ hit_store = NoObject /\ builder = NoObject
  /\ process = NoObject /\ converter = NoObject
  /\ seq_render = NoObject /\ console = NoObject /\ handler = NoObject
  /\ \E t \in 0..MaxTimes :
       generator = [used |-> TRUE, times |-> t, pc |-> "collect",
                    wakuchin |-> <<>>, i |-> 0, result |-> <<>>]

\* let mut wakuchin: Vec<char> = ... collect()
GenCollect ==
  /\ generator.used /\ generator.pc = "collect"
  /\ LET v == cycle_take(Len(WAKUCHIN) * generator.times) IN
       generator' = [generator EXCEPT !.wakuchin = v, !.i = Len(v),
                                      !.pc = "shuffle"]
  /\ UNCHANGED besidesGenerator

\* wakuchin.shuffle(&mut rng), one swap
GenShuffleStep ==
  /\ generator.used /\ generator.pc = "shuffle" /\ generator.i > 1
  /\ \E j \in 1..generator.i :
       generator' = [generator EXCEPT
                       !.wakuchin = swap(@, generator.i, j),
                       !.i = @ - 1]
  /\ UNCHANGED besidesGenerator

\* wakuchin.iter().collect()
GenReturn ==
  /\ generator.used /\ generator.pc = "shuffle" /\ generator.i <= 1
  /\ generator' = [generator EXCEPT !.result = generator.wakuchin,
                                    !.pc = "returned"]
  /\ UNCHANGED besidesGenerator

NextGen ==
  \/ GenCollect
  \/ GenShuffleStep
  \/ GenReturn

SpecGen == InitGen /\ [][NextGen]_vars

\* ------------------------------------------------------------------ convert
\* convert.rs on its own.  The four hiragana of symbol.rs are written by their
\* readings ("wa", "ku", "chi", "n"), the NUL character as "NUL"; "a" stands
\* for any other character.  A string is a sequence of characters.
MaxChars == 2

WAKUCHIN_W == "W"
WAKUCHIN_K == "K"
WAKUCHIN_C == "C"
WAKUCHIN_N == "N"
WAKUCHIN_EXTERNAL_W == "wa"
WAKUCHIN_EXTERNAL_K == "ku"
WAKUCHIN_EXTERNAL_C == "chi"
WAKUCHIN_EXTERNAL_N == "n"
NUL == "NUL"
\* symbol::WAKUCHIN_EXTERNAL
WAKUCHIN_EXTERNAL ==
  <<WAKUCHIN_EXTERNAL_W, WAKUCHIN_EXTERNAL_K, WAKUCHIN_EXTERNAL_C,
    WAKUCHIN_EXTERNAL_N>>

AnyChar ==
  {WAKUCHIN_W, WAKUCHIN_K, WAKUCHIN_C, WAKUCHIN_N,
   WAKUCHIN_EXTERNAL_W, WAKUCHIN_EXTERNAL_K, WAKUCHIN_EXTERNAL_C,
   WAKUCHIN_EXTERNAL_N, "a", NUL}

char_to_wakuchin(char) ==
  CASE char = WAKUCHIN_W -> WAKUCHIN_EXTERNAL_W
    [] char = WAKUCHIN_K -> WAKUCHIN_EXTERNAL_K
    [] char = WAKUCHIN_C -> WAKUCHIN_EXTERNAL_C
    [] char = WAKUCHIN_N -> WAKUCHIN_EXTERNAL_N
    [] OTHER -> NUL

wakuchin_to_char_k_for_c(char) ==
  CASE char = WAKUCHIN_EXTERNAL_W -> WAKUCHIN_W
    [] char = WAKUCHIN_EXTERNAL_K -> WAKUCHIN_K
    [] char = WAKUCHIN_EXTERNAL_C -> WAKUCHIN_K
    [] char = WAKUCHIN_EXTERNAL_N -> WAKUCHIN_N
    [] OTHER -> NUL
wakuchin_to_char(char) ==
  CASE char = WAKUCHIN_EXTERNAL_W -> WAKUCHIN_W
    [] char = WAKUCHIN_EXTERNAL_K -> WAKUCHIN_K
    [] char = WAKUCHIN_EXTERNAL_C -> WAKUCHIN_C
    [] char = WAKUCHIN_EXTERNAL_N -> WAKUCHIN_N
    [] OTHER -> NUL

\* String::from_iter(chars.chars().map(char_to_wakuchin))
chars_to_wakuchin(chars) == [p \in 1..Len(chars) |-> char_to_wakuchin(chars[p])]
\* String::from_iter(chars.chars().map(wakuchin_to_char))
wakuchin_to_chars(chars) == [p \in 1..Len(chars) |-> wakuchin_to_char(chars[p])]

ConvertFns == {"chars_to_wakuchin", "wakuchin_to_chars"}
apply(f, chars) ==
  IF f = "chars_to_wakuchin" THEN chars_to_wakuchin(chars)
  ELSE wakuchin_to_chars(chars)
other_fn(f) ==
  IF f = "chars_to_wakuchin" THEN "wakuchin_to_chars" ELSE "chars_to_wakuchin"

Strings == UNION {[1..n -> AnyChar] : n \in 0..MaxChars}

InitConvert ==
  /\ NoRun
  /\ even_divisions = NoDivisions /\ thread_render = NoRender
  /\ hit_store = NoObject /\ builder = NoObject
  /\ process = NoObject /\ generator = NoObject
  /\ seq_render = NoObject /\ console = NoObject /\ handler = NoObject
  /\ \E f \in ConvertFns, chars \in Strings :
       converter = [used |-> TRUE, f |-> f, chars |-> chars, pc |-> "call",
                    out |-> <<>>, back |-> <<>>]

\* the transform is called on the string
ConvertCall ==
  /\ converter.used /\ converter.pc = "call"
  /\ converter' = [converter EXCEPT !.out = apply(converter.f, converter.chars),
                                    !.pc = "returned"]
  /\ UNCHANGED besidesConverter

\* the other transform is called on the result
ConvertBack ==
  /\ converter.used /\ converter.pc = "returned"
  /\ converter' = [converter EXCEPT
                     !.back = apply(other_fn(converter.f), converter.out),
                     !.pc = "back"]
  /\ UNCHANGED besidesConverter

NextConvert ==
  \/ ConvertCall
  \/ ConvertBack

SpecConvert == InitConvert /\ [][NextConvert]_vars

\* ------------------------------------------------------------------- Render
\* The Render of render.rs as run_seq drives it, with the clock that
\* Instant::now() reads.  The clock is a counter of ticks; a tick can pass
\* between any two steps, and the interval is a number of ticks.
MaxClock == 4
MaxInterval == 2

\* render_progress: self.start_time.elapsed() <= interval
within_interval_strict(elapsed, interval) == elapsed < interval
within_interval(elapsed, interval) == elapsed <= interval

\* the handler call of render_progress: &[progress], interval, diff, all_done
SeqCall(p, diff, all_done) ==
  [at |-> seq_render.now, progresses |-> <<p>>,
   elapsed |-> seq_render.interval, current_diff |-> diff,
   all_done |-> all_done]

\* Render::render_progress(interval, progress, all_done) on render r
render_progress(r, interval, p, all_done) ==
  IF interval = 0
  THEN [r EXCEPT !.handled = Append(@, [SeqCall(p, 0, all_done)
                                          EXCEPT !.elapsed = interval])]
  ELSE IF within_interval(r.now - r.start_time, interval) THEN r
  ELSE IF p.kind = "Done" THEN r
  ELSE LET diff == IF p.kind = "Processing"
                   THEN DiffStore_update(r.current_diff, p.current)
                   ELSE [ret |-> 0, previous |-> r.current_diff]
       IN [r EXCEPT
             !.handled = Append(@, SeqCall(p, diff.ret, all_done)),
             !.current_diff = diff.previous,
             !.start_time = r.now]

\* run_seq after its validation: Render::new(progress_handler)
InitSeqRender ==
  /\ NoRun
  /\ even_divisions = NoDivisions /\ thread_render = NoRender
  /\ hit_store = NoObject /\ builder = NoObject /\ process = NoObject
  /\ generator = NoObject /\ converter = NoObject
  /\ console = NoObject /\ handler = NoObject
  /\ \E t \in 1..MaxTries, interval \in 0..MaxInterval :
       seq_render = [used |-> TRUE, tries |-> t, interval |-> interval,
                     now |-> 0, start_time |-> 0, current_diff |-> 0,
                     pc |-> "idle", i |-> 0, handled |-> <<>>]

\* time passes
SeqTick ==
  /\ seq_render.used /\ seq_render.pc # "returned"
  /\ seq_render.now < MaxClock
  /\ seq_render' = [seq_render EXCEPT !.now = @ + 1]
  /\ UNCHANGED besidesSeqRender

\* render.render_progress(progress_interval, Idle, false)
SeqRenderIdle ==
  /\ seq_render.used /\ seq_render.pc = "idle"
  /\ seq_render' =
       [render_progress(seq_render, seq_render.interval, RIdle(0), FALSE)
          EXCEPT !.pc = "loop"]
  /\ UNCHANGED besidesSeqRender

\* one candidate: render.render_progress(progress_interval, Processing, false)
SeqRenderProcessing ==
  /\ seq_render.used /\ seq_render.pc = "loop"
  /\ seq_render.i < seq_render.tries
  /\ seq_render' =
       [render_progress(seq_render, seq_render.interval,
                        RProcessing(0, seq_render.i, seq_render.tries), FALSE)
          EXCEPT !.i = @ + 1]
  /\ UNCHANGED besidesSeqRender

\* after the last candidate: render.render_progress(Duration::ZERO, Done, true)
SeqRenderFinal ==
  /\ seq_render.used /\ seq_render.pc = "loop"
  /\ seq_render.i = seq_render.tries
  /\ seq_render' =
       [render_progress(seq_render, 0, RDone(0, seq_render.tries), TRUE)
          EXCEPT !.pc = "returned"]
  /\ UNCHANGED besidesSeqRender

NextSeqRender ==
  \/ SeqTick
  \/ SeqRenderIdle
  \/ SeqRenderProcessing
  \/ SeqRenderFinal

SpecSeqRender == InitSeqRender /\ [][NextSeqRender]_vars

\* ------------------------------------------------------------------ handler
\* run_par and the progress handler: which thread of a run is inside an
\* operation of the handler.  The handler lives in the ThreadRender; the
\* engine calls invoke_before_start on it and then moves it into the reporter
\* task (`async move`), whose body calls run and invoke_after_finish.  The
\* closures of the workers and the hit counter capture the channels, the
\* regex and the stop receiver, and nothing of the render.
MaxOps == 2
Threads == {"engine", "reporter", "counter", "worker"}

\* the statements of run_par from ThreadRender::new to the join loops
engine_program_spawn_first ==
  <<"new", "create_runtime", "spawn_counter", "spawn_reporter",
    "invoke_before_start", "spawn_workers", "join">>
engine_program ==
  <<"new", "invoke_before_start", "create_runtime", "spawn_counter",
    "spawn_reporter", "spawn_workers", "join">>

InitHandler ==
  /\ NoRun
  /\ even_divisions = NoDivisions /\ thread_render = NoRender
  /\ hit_store = NoObject /\ builder = NoObject /\ process = NoObject
  /\ generator = NoObject /\ converter = NoObject
  /\ seq_render = NoObject /\ console = NoObject
  /\ \E n \in 1..MaxSteps :
       handler = [used |-> TRUE,
                  epc |-> 1,                       \* next statement of the engine
                  in_op |-> [t \in Threads |-> ""],\* operation a thread is inside
                  render |-> "none",               \* the thread that holds the render
                  spawned |-> {},
                  rpc |-> "none",                  \* position of the reporter task
                  final |-> FALSE,
                  handles |-> 0,
                  stop |-> FALSE,                  \* accidential_stop
                  wleft |-> n,                     \* candidates left to the worker
                  sent |-> 0, counted |-> 0,       \* hits sent, hits counted
                  ops |-> <<>>]                    \* observer: operations begun

EngineReturned == handler.epc > Len(engine_program)
HitsDrained == handler.wleft = 0 /\ handler.counted = handler.sent

\* a thread enters an operation of the handler
BeginOp(h, t, op) ==
  [h EXCEPT !.in_op[t] = op,
            !.ops = Append(@, [op |-> op, by |-> t, spawned |-> h.spawned])]

\* the next statement of run_par on the engine thread
EngineStatement ==
  /\ handler.used /\ ~EngineReturned /\ handler.in_op["engine"] = ""
  /\ LET stmt == engine_program[handler.epc]
         next == [handler EXCEPT !.epc = @ + 1]
     IN CASE stmt = "new" ->
               handler' = [next EXCEPT !.render = "engine"]
          [] stmt = "invoke_before_start" ->
               handler' = BeginOp(handler, "engine", "before_start")
          [] stmt = "create_runtime" ->
               handler' = next
          [] stmt = "spawn_counter" ->
               handler' = [next EXCEPT !.spawned = @ \cup {"counter"}]
          [] stmt = "spawn_reporter" ->
               handler' = [next EXCEPT !.spawned = @ \cup {"reporter"},
                                       !.render = "reporter",
                                       !.rpc = "run"]
          [] stmt = "spawn_workers" ->
               handler' = [next EXCEPT !.spawned = @ \cup {"worker"}]
          [] stmt = "join" ->
               /\ \/ handler.stop
                  \/ HitsDrained /\ handler.rpc \in {"done", "aborted"}
               /\ handler' = next
  /\ UNCHANGED besidesHandler

\* invoke_before_start returns; `?` leaves run_par on an error
EngineOpEnd ==
  /\ handler.used /\ handler.in_op["engine"] # ""
  /\ \E ok \in BOOLEAN :
       handler' = [handler EXCEPT
                     !.in_op["engine"] = "",
                     !.epc = IF ok THEN @ + 1 ELSE Len(engine_program) + 1]
  /\ UNCHANGED besidesHandler

\* the reporter task enters its next operation: on_accidental_stop when the
\* stop flag is set, else handle (the last one once the hits are drained),
\* and after_finish when run has returned Ok
ReporterBegin ==
  /\ handler.used /\ handler.in_op["reporter"] = ""
  /\ \/ /\ handler.rpc = "run" /\ handler.stop
        /\ handler' = BeginOp(handler, "reporter", "on_accidential_stop")
     \/ /\ handler.rpc = "run" /\ ~handler.stop
        /\ HitsDrained \/ handler.handles < MaxOps
        /\ handler' = [BeginOp(handler, "reporter", "handle") EXCEPT
                         !.final = HitsDrained,
                         !.handles = IF HitsDrained THEN @ ELSE @ + 1]
     \/ /\ handler.rpc = "after"
        /\ handler' = BeginOp(handler, "reporter", "after_finish")
  /\ UNCHANGED besidesHandler

\* the operation the reporter is inside returns
ReporterEnd ==
  /\ handler.used /\ handler.in_op["reporter"] # ""
  /\ \E ok \in BOOLEAN :
       handler' =
         [handler EXCEPT
            !.in_op["reporter"] = "",
            !.rpc = IF ~ok \/ handler.in_op["reporter"] # "handle" THEN "done"
                    ELSE IF handler.final THEN "after" ELSE "run",
            !.render = IF ~ok \/ handler.in_op["reporter"] # "handle"
                       THEN "dropped" ELSE @]
  /\ UNCHANGED besidesHandler

\* handle.abort() of the abort task takes effect at an await of the reporter
ReporterAbort ==
  /\ handler.used /\ handler.stop
  /\ handler.rpc = "run" /\ handler.in_op["reporter"] = ""
  /\ handler' = [handler EXCEPT !.rpc = "aborted", !.render = "dropped"]
  /\ UNCHANGED besidesHandler

\* one iteration of the worker: check, hit send, progress send
HandlerWorkerIter ==
  /\ handler.used /\ "worker" \in handler.spawned /\ handler.wleft > 0
  /\ \E hit \in 0..1 :
       handler' = [handler EXCEPT !.wleft = @ - 1, !.sent = @ + hit]
  /\ UNCHANGED besidesHandler

\* HitCounter::run: one hit received and added to the store
HandlerCounterRecv ==
  /\ handler.used /\ "counter" \in handler.spawned
  /\ handler.counted < handler.sent
  /\ handler' = [handler EXCEPT !.counted = @ + 1]
  /\ UNCHANGED besidesHandler

\* the signal task: ctrl_c().await, accidential_stop_tx.send(true)
HandlerCtrlC ==
  /\ handler.used /\ ~handler.stop /\ ~EngineReturned
  /\ "worker" \in handler.spawned
  /\ handler' = [handler EXCEPT !.stop = TRUE]
  /\ UNCHANGED besidesHandler

NextHandler ==
  \/ EngineStatement
  \/ EngineOpEnd
  \/ ReporterBegin
  \/ ReporterEnd
  \/ ReporterAbort
  \/ HandlerWorkerIter
  \/ HandlerCounterRecv
  \/ HandlerCtrlC

SpecHandler == InitHandler /\ [][NextHandler]_vars

\* ------------------------------------------------------------------ console
\* cli/handlers.rs: the arithmetic of ConsoleProgressHandler's progress bar.
\* terminal_width is a u16 read from the terminal; the subtractions and the
\* addition on it are u16 operations, which panic in a build with overflow
\* checks and wrap modulo 2^16 in a build without; the padding of the segment
\* is a usize subtraction.
MaxWidth == 70
U16 == 65536
DEFAULT_TERMINAL_WIDTH == 33
TerminalWidths == 0..MaxWidth \cup {U16 - 1}
TriesValues == {1, 3, 10}

\* tries.to_string().len()
RECURSIVE string_len(_)
string_len(n) == IF n < 10 THEN 1 ELSE 1 + string_len(n \div 10)

\* u16 operations: the wrapped value and whether the exact result fits
add_u16(a, b) == [v |-> (a + b) % U16, fits |-> a + b < U16]
sub_u16(a, b) == [v |-> (a - b + U16) % U16, fits |-> a >= b]

\* the bar width of render_progress_bar:
\*   if terminal_width < tries_width || terminal_width + tries_width < 45
\*     { DEFAULT } else { terminal_width - tries_width * 2 - 55 }
\* then the smaller of it and DEFAULT_TERMINAL_WIDTH
uses_default(terminal_width, tries_width) ==
  \/ terminal_width < tries_width
  \/ add_u16(terminal_width, tries_width).v < 45

possible_bar_width(terminal_width, tries_width) ==
  IF uses_default(terminal_width, tries_width)
  THEN [v |-> DEFAULT_TERMINAL_WIDTH,
        fits |-> \/ terminal_width < tries_width
                 \/ add_u16(terminal_width, tries_width).fits]
  ELSE LET sum == add_u16(terminal_width, tries_width)
           d1 == sub_u16(terminal_width, tries_width * 2)
           d2 == sub_u16(d1.v, 55)
       IN [v |-> d2.v, fits |-> sum.fits /\ d1.fits /\ d2.fits]

bar_width(possible) ==
  IF DEFAULT_TERMINAL_WIDTH > possible THEN possible ELSE DEFAULT_TERMINAL_WIDTH

\* render_progress_segment, percentage < 100: block = width * percentage / 100
\* truncated, percentage = current / tries * 100
block_of(width, current, tries_) == (width * current) \div tries_

InitConsole ==
  /\ NoRun
  /\ even_divisions = NoDivisions /\ thread_render = NoRender
  /\ hit_store = NoObject /\ builder = NoObject /\ process = NoObject
  /\ generator = NoObject /\ converter = NoObject
  /\ seq_render = NoObject /\ handler = NoObject
  /\ \E t \in TriesValues, w \in TerminalWidths, checks \in BOOLEAN :
       console = [used |-> TRUE,
                  overflow_checks |-> checks,      \* the build's choice
                  tries |-> t,
                  terminal_width |-> w,
                  current |-> 0,
                  pc |-> "bar",
                  bar_width |-> 0,
                  space |-> 0,
                  underflow |-> FALSE]             \* observer: a result below 0

\* render_progress_bar up to the call of render_progress_segment
ConsoleBarWidth ==
  /\ console.used /\ console.pc = "bar"
  /\ \E current \in console.current..console.tries :
       LET p == possible_bar_width(console.terminal_width,
                                   string_len(console.tries))
       IN console' =
            [console EXCEPT
               !.current = current,
               !.underflow = @ \/ ~p.fits,
               !.bar_width = bar_width(p.v),
               !.pc = IF ~p.fits /\ console.overflow_checks
                      THEN "panicked" ELSE "segment"]
  /\ UNCHANGED besidesConsole

\* render_progress_segment(bar_width.into(), percentage)
ConsoleSegment ==
  /\ console.used /\ console.pc = "segment"
  /\ LET width == console.bar_width
         space == width - block_of(width, console.current, console.tries) - 1
     IN console' =
          IF console.current >= console.tries
          THEN [console EXCEPT !.pc = "drawn"]
          ELSE [console EXCEPT
                  !.underflow = @ \/ space < 0,
                  !.space = IF space < 0 THEN 0 ELSE space,
                  !.pc = IF space < 0 THEN "panicked" ELSE "drawn"]
  /\ UNCHANGED besidesConsole

\* the next handle call reads the size of the terminal again
ConsoleHandle ==
  /\ console.used /\ console.pc = "drawn"
  /\ console.current < console.tries
  /\ \E w \in TerminalWidths :
       console' = [console EXCEPT !.terminal_width = w, !.pc = "bar"]
  /\ UNCHANGED besidesConsole

NextConsole == ConsoleBarWidth \/ ConsoleSegment \/ ConsoleHandle

SpecConsole == InitConsole /\ [][NextConsole]_vars

\* ------------------------------------------------------------------ claims
Returned == pc = "returned"
ReturnedOk == Returned /\ result.kind = "Ok"

\* sum of the counts of a hits list
RECURSIVE SumHits(_)
SumHits(H) ==
  IF H = {} THEN 0
  ELSE LET h == CHOOSE x \in H : TRUE IN h.hits + SumHits(H \ {h})

\* number of entries of a hit list with the given text
Occurrences(detail, t) == Cardinality({n \in 1..Len(detail) : detail[n].chars = t})

\* count recorded for a text in a hits list (0 when the text has no entry)
CountIn(H, t) ==
  IF \E h \in H : h.chars = t THEN (CHOOSE h \in H : h.chars = t).hits ELSE 0

\* C1: hit conservation.  Whenever run_par or run_seq returns a result,
\* hits_total is the sum of the counts in hits and the number of entries of
\* hits_detail, and the count of each text is the number of entries of
\* hits_detail with that text (no hit lost in a channel, none counted twice).
C1_HitConservation ==
  ReturnedOk =>
    /\ result.hits_total = SumHits(result.hits)
    /\ result.hits_total = Len(result.hits_detail)
    /\ \A t \in Candidates :
         CountIn(result.hits, t) = Occurrences(result.hits_detail, t)
    /\ \A h \in result.hits : h.hits > 0

\* a parallel run with two workers returned a result holding two hits of the
\* same text, one from each worker
C1_Witness ==
  /\ ReturnedOk
  /\ mode = "par"
  /\ result.hits_total = 2
  /\ Cardinality(result.hits) = 1
  /\ \A k \in DOMAIN whits : Len(whits[k]) = 1
  /\ Len(whits) = 2

\* C2: in the result of run_par, hits_detail is the concatenation of the
\* workers' hit lists in worker-id order: every hit of worker k comes before
\* every hit of worker k + 1, whatever the order in which the workers finish.
C2_WorkerIdOrder ==
  (ReturnedOk /\ mode = "par") =>
    \A p, q \in 1..Len(detail_src) : p < q => detail_src[p] <= detail_src[q]

\* C3: within the block of hits_detail contributed by one worker (and in the
\* whole hits_detail of run_seq) hit_on is strictly increasing, and the hits
\* of one worker form one contiguous block.
C3_StrictlyIncreasing ==
  /\ Len(detail_src) = Len(hits_detail)
  /\ \A p, q \in 1..Len(hits_detail) :
       (p < q /\ detail_src[p] = detail_src[q]) =>
         /\ hits_detail[p].hit_on < hits_detail[q].hit_on
         /\ \A r \in p..q : detail_src[r] = detail_src[p]
  /\ \A k \in DOMAIN whits : \A p, q \in 1..Len(whits[k]) :
       p < q => whits[k][p].hit_on < whits[k][q].hit_on

\* a parallel run returned a result in which one worker contributed two hits
C3_Witness ==
  /\ ReturnedOk
  /\ mode = "par"
  /\ \E p, q \in 1..Len(result.hits_detail) : p < q /\ detail_src[p] = detail_src[q]

\* every hit held anywhere in the run
AllHitTexts ==
  {hit_chan[n].chars : n \in 1..Len(hit_chan)}
    \cup {hits_detail[n].chars : n \in 1..Len(hits_detail)}
    \cup {result.hits_detail[n].chars : n \in 1..Len(result.hits_detail)}
    \cup UNION {{whits[k][n].chars : n \in 1..Len(whits[k])} : k \in DOMAIN whits}
    \cup {t \in Candidates : store[t] > 0}
    \cup {h.chars : h \in result.hits}

\* C4: no phantom hits.  Every text in the hit channel, in a local hit list,
\* in the hit store, in hits_detail and in hits was generated during this run
\* and matches the regex.
C4_NoPhantomHits ==
  \A t \in AllHitTexts : t \in generated /\ t \in regex

\* a run that generated a candidate the regex rejects returned a result with
\* at least one hit
C4_Witness ==
  /\ ReturnedOk
  /\ result.hits_total >= 1
  /\ \E t \in generated : t \notin regex

\* C5: on normal completion exactly `tries` candidates were generated, one for
\* each index of [0, tries), for every worker count; with a regex matching
\* every candidate hits_total = |hits_detail| = tries, with a regex matching
\* none hits and hits_detail are empty.
C5_ExactlyTries ==
  ReturnedOk =>
    /\ \A g \in DOMAIN tested : tested[g] = IF g < tries THEN 1 ELSE 0
    /\ regex = Candidates =>
         result.hits_total = tries /\ Len(result.hits_detail) = tries
    /\ regex = {} => result.hits = {} /\ result.hits_detail = <<>>

\* a parallel run with more workers than tries returned a result in which
\* every candidate is a hit
C5_Witness ==
  /\ ReturnedOk
  /\ mode = "par"
  /\ tries >= 1
  /\ total_workers > tries
  /\ regex = Candidates
  /\ result.hits_total = tries

\* indices of the calls of a handler operation in the call log
CallsOf(op) == {n \in 1..Len(calls) : calls[n].op = op}
FinalCalls == {n \in 1..Len(calls) : calls[n].op = "handle" /\ calls[n].all_done}
AllCallsOk == \A n \in 1..Len(calls) : calls[n].ok

\* nothing of a run exists: no channel, no task, no signal handler, no
\* candidate generated
NothingCreated ==
  /\ progress = <<>> /\ ~progress_open /\ ~main_hit_tx /\ hit_chan = <<>>
  /\ wpc = <<>> /\ cpc = "none" /\ apc = "none"
  /\ ~ctrlc_set /\ ~interrupted
  /\ \A g \in DOMAIN tested : tested[g] = 0

\* C6: with tries = 0 run_par and run_seq return Ok with the empty result
\* whatever the value of times (also times = 0); no handler operation is
\* invoked and no channel, task or signal handler is created.
C6_ZeroTries ==
  tries = 0 =>
    /\ calls = <<>>
    /\ NothingCreated
    /\ pc \in {"start", "returned"}
    /\ Returned =>
         /\ result.kind = "Ok"
         /\ result.tries = 0 /\ result.hits_total = 0
         /\ result.hits = {} /\ result.hits_detail = <<>>

\* a run with tries = 0 and times = 0 returned Ok
C6_Witness == tries = 0 /\ times = 0 /\ ReturnedOk

\* C7: with times = 0 and tries >= 1 run_par and run_seq return TimesIsZero
\* at once: no handler operation is invoked, no worker is spawned and no
\* candidate is generated.
C7_TimesZero ==
  (times = 0 /\ tries >= 1) =>
    /\ calls = <<>>
    /\ NothingCreated
    /\ pc \in {"start", "returned"}
    /\ Returned => result.kind = "Err" /\ result.error = "TimesIsZero"

\* a run with times = 0 and tries >= 1 returned
C7_Witness == times = 0 /\ tries >= 1 /\ Returned /\ result.kind = "Err"

C9_Original ==
  ReturnedOk =>
    /\ Cardinality(FinalCalls) = 1
    /\ Cardinality(CallsOf("after_finish")) = 1
    /\ CallsOf("on_accidential_stop") = {}
    /\ calls[Len(calls)].op = "after_finish"
    /\ calls[Len(calls) - 1].op = "handle" /\ calls[Len(calls) - 1].all_done

\* C9 (amended): every run with tries >= 1 that returns a result made exactly
\* one handle call with all_done = true, which is its last handle call, then
\* exactly one after_finish, and never invoked on_accidential_stop; in every
\* state, no handler operation follows after_finish and no handle call
\* follows the one with all_done = true.
C9_NormalCompletion ==
  /\ (ReturnedOk /\ tries >= 1) =>
       /\ Cardinality(FinalCalls) = 1
       /\ Cardinality(CallsOf("after_finish")) = 1
       /\ CallsOf("on_accidential_stop") = {}
       /\ Len(calls) >= 3
       /\ calls[Len(calls)].op = "after_finish"
       /\ calls[Len(calls) - 1].op = "handle" /\ calls[Len(calls) - 1].all_done
  /\ \A n \in CallsOf("after_finish") : n = Len(calls)
  /\ \A n \in FinalCalls : \A m \in CallsOf("handle") : m <= n

\* a parallel run returned a result after a periodic handle call, the final
\* handle call and after_finish
C9_Witness ==
  /\ ReturnedOk
  /\ mode = "par"
  /\ tries >= 1
  /\ Cardinality(CallsOf("handle")) >= 2

\* C10 (its last clause): when the interrupt is delivered during a run, before
\* any handle call with all_done = true, and no handler operation fails, the
\* run returns no error other than Cancelled: a cancellation is never
\* reported as a worker failure.
C10_CancelNotWorkerFailure ==
  (Returned /\ intr_early /\ AllCallsOk /\ result.kind = "Err") =>
    result.error = "Cancelled"

\* C10 as a whole: when the interrupt is delivered before any handle call
\* with all_done = true, the run returns Cancelled and never a result.
C10_InterruptReturnsCancelled ==
  (Returned /\ intr_early /\ AllCallsOk) =>
    (result.kind = "Err" /\ result.error = "Cancelled")

\* the run returned the given error
ReturnedErr(e) == Returned /\ result.kind = "Err" /\ result.error = e

\* C11: in a cancelled run (parallel or sequential) on_accidential_stop is
\* invoked exactly once, after_finish is not invoked by the engine, no handle
\* call carries all_done = true and no handler operation follows
\* on_accidential_stop.
C11_CancelledRun ==
  ReturnedErr("Cancelled") =>
    /\ Cardinality(CallsOf("on_accidential_stop")) = 1
    /\ CallsOf("after_finish") = {}
    /\ FinalCalls = {}
    /\ calls[Len(calls)].op = "on_accidential_stop"

\* C11 for run_seq alone: there the stop handler is invoked in line, once
C11_SeqCancelledRun ==
  (mode = "seq" /\ ReturnedErr("Cancelled")) =>
    /\ Cardinality(CallsOf("on_accidential_stop")) = 1
    /\ CallsOf("after_finish") = {}
    /\ FinalCalls = {}
    /\ calls[Len(calls)].op = "on_accidential_stop"

\* worker k runs one iteration of its loop in this step
IterStep(k) == wi'[k] # wi[k]

\* C12: once the cancellation flag is set every parallel worker returns within
\* one iteration of its loop: an iteration that starts with the flag set is
\* the last one of its worker, it sends no hit and it publishes no progress.
C12_StopWithinOneIteration ==
  [][\A k \in DOMAIN wi :
       (flag /\ IterStep(k)) =>
         /\ (wpc'[k] = "exit" \/ wi'[k] = total(k))
         /\ hit_chan' = hit_chan
         /\ progress' = progress]_vars

\* C12, the latency alone: an iteration that starts with the flag set is the
\* last one of its worker
C12_LastIteration ==
  [][\A k \in DOMAIN wi :
       (flag /\ IterStep(k)) => (wpc'[k] = "exit" \/ wi'[k] = total(k))]_vars

\* a handle or after_finish call of the run returned an error
HandlerFailed ==
  \E n \in 1..Len(calls) : calls[n].op \in {"handle", "after_finish"} /\ ~calls[n].ok

\* the task of worker k has ended
WorkerEnded(k) == wpc[k] \in {"done", "cancelled", "panicked"}

\* C13: when handle or after_finish returns an error during run_par (here in
\* a run that the operator does not interrupt), run_par returns that error,
\* the cancellation flag is set (so that the workers stop early) and every
\* worker was joined before the engine returned.
C13_HandlerErrorStopsRun ==
  (mode = "par" /\ Returned /\ HandlerFailed /\ ~interrupted) =>
    /\ result.kind = "Err" /\ result.error = "HandlerError"
    /\ flag
    /\ joined = WorkerIds
    /\ \A k \in WorkerIds : WorkerEnded(k)

\* C13 without the flag: such a run returns the handler's error after joining
\* every worker
C13_HandlerErrorReturned ==
  (mode = "par" /\ Returned /\ HandlerFailed /\ ~interrupted) =>
    /\ result.kind = "Err" /\ result.error = "HandlerError"
    /\ joined = WorkerIds

\* C14 (the workers): whenever run_par returns, with a result or with an
\* error, every worker task has ended: no worker is still generating
\* candidates after the entry point has returned.
C14_NoWorkerRunningAtReturn ==
  (mode = "par" /\ Returned /\ wpc # <<>>) => \A k \in WorkerIds : WorkerEnded(k)

\* C14 as a whole: whenever run_par returns every task it spawned has ended:
\* each worker, the hit counter and the progress reporter.
C14_TasksEndedAtReturn ==
  (mode = "par" /\ Returned /\ wpc # <<>>) =>
    /\ \A k \in WorkerIds : WorkerEnded(k)
    /\ cpc \in {"done", "cancelled"}
    /\ apc \in {"done", "cancelled"}

\* C14 for the runs that return a result
C14_TasksEndedAtOk ==
  (mode = "par" /\ ReturnedOk /\ wpc # <<>>) =>
    /\ \A k \in WorkerIds : wpc[k] = "done"
    /\ cpc = "done"
    /\ apc = "done"

\* C15: when more than one task of a parallel run failed, run_par returns the
\* error that occurred first; the later ones never replace it.
C15_FirstErrorWins ==
  (mode = "par" /\ Returned /\ Len(errors) >= 2) =>
    (result.kind = "Err" /\ result.error = errors[1])

\* C16: the hit counts passed to the final handle call (all_done = true) of a
\* parallel run reflect every hit of every worker: they sum to the total
\* length of the workers' hit lists, and no hit is still queued in a channel
\* when the call is made.
C16_FinalCountsComplete ==
  (thread_render.used /\ thread_render.handled.all_done) =>
    /\ thread_render.handled.hits = thread_render.sent
    /\ thread_render.hit_rx = <<>>
    /\ thread_render.internal_hit_rx = <<>>

\* C16 for the hit counter of hit/counter.rs: count_stopped is set only when
\* the hit channel is drained and the store holds every hit of every worker
C16_CountStoppedComplete ==
  count_stopped =>
    /\ hit_chan = <<>>
    /\ hits_sum(store) = SumOver([k \in DOMAIN whits |-> Len(whits[k])], DOMAIN whits)
    /\ \A k \in DOMAIN wpc : ~WorkerHoldsTx(k)

\* position of a snapshot in the order Idle, Processing(0), Processing(1), ..,
\* Done of a worker whose range has n indices
Rank(v, n) ==
  IF v.kind = "Unread" THEN -1
  ELSE IF v.kind = "Idle" THEN 0
  ELSE IF v.kind = "Processing" THEN 1 + v.current
  ELSE n + 1

\* a snapshot that worker k may publish
WellFormed(v, k) ==
  \/ v = Idle
  \/ v.kind = "Processing" /\ v.total = total(k)
       /\ v.current >= 0 /\ v.current <= v.total
  \/ v.kind = "Done" /\ v.total = total(k)

\* C17: the snapshots published on the progress channel of a worker are Idle,
\* then Processing snapshots with non-decreasing current, then Done, never
\* going back; every Processing has current <= total, and total is the size
\* of the worker's range in every Processing and Done.  What the aggregator
\* reads is the latest published value, in the same order.
C17_ProgressOrder ==
  [][/\ \A k \in DOMAIN progress' :
          /\ WellFormed(progress'[k], k)
          /\ IF k \in DOMAIN progress
             THEN Rank(progress[k], total(k)) <= Rank(progress'[k], total(k))
             ELSE progress'[k] = Idle
     /\ \A k \in DOMAIN seen' :
          /\ seen'[k] \in {Unread, progress[k]} \cup
                          (IF k \in DOMAIN seen THEN {seen[k]} ELSE {})
          /\ k \in DOMAIN seen =>
               Rank(seen[k], total(k)) <= Rank(seen'[k], total(k))
          /\ Rank(seen'[k], total(k)) <= Rank(progress'[k], total(k))]_vars

\* a worker with a range of two indices has published Done after the
\* aggregator read one of its Processing snapshots
C17_Witness ==
  \E k \in DOMAIN progress :
    /\ total(k) = 2
    /\ progress[k] = Done(2)
    /\ k \in DOMAIN seen /\ seen[k].kind = "Processing"

\* the iterator is exhausted: every worker has its range
AllYielded == even_divisions.end > 0 /\ even_divisions.remaining = 0
Ranges == even_divisions.yielded
Size(r) == r.hi - r.lo
RECURSIVE SumSizes(_)
SumSizes(rs) == IF rs = <<>> THEN 0 ELSE Size(Head(rs)) + SumSizes(Tail(rs))

\* the ranges are those the workers of run_par get (range_lo, range_hi)
RangesAreWorkerRanges ==
  \A k \in 1..Len(Ranges) :
    LET n == Len(Ranges) + even_divisions.remaining IN
      /\ Ranges[k].lo = range_lo(even_divisions.end, n, k)
      /\ Ranges[k].hi = range_hi(even_divisions.end, n, k)

\* C18: partition cover.  The W' ranges are contiguous and disjoint
\* (lo(0) = 0, lo(k+1) = hi(k), hi(W'-1) = tries), their sizes sum to tries
\* and any two sizes differ by at most 1, for every tries >= 1 and W' >= 1.
C18_PartitionCover ==
  /\ RangesAreWorkerRanges
  /\ \A k \in 1..Len(Ranges) :
       /\ Ranges[k].lo = (IF k = 1 THEN 0 ELSE Ranges[k - 1].hi)
       /\ Ranges[k].lo <= Ranges[k].hi
  /\ AllYielded =>
       /\ Ranges[Len(Ranges)].hi = even_divisions.end
       /\ SumSizes(Ranges) = even_divisions.end
       /\ \A j, k \in 1..Len(Ranges) : Size(Ranges[j]) - Size(Ranges[k]) <= 1

\* 7 indices were divided into 3 ranges
C18_Witness ==
  AllYielded /\ even_divisions.end = 7 /\ Len(Ranges) = 3

\* the number of ranges asked for (W')
Divisions == Len(Ranges) + even_divisions.remaining

Min(a, b) == IF a < b THEN a ELSE b

\* C21: the number of workers spawned by run_par is min(W, tries) when the
\* workers argument W is non-zero and min(logical CPU count, tries) when
\* W = 0; it never exceeds tries.
C21_WorkersClamped ==
  (mode = "par" /\ wpc # <<>>) =>
    Len(wpc) = Min(IF workers # 0 THEN workers ELSE LogicalCpus, tries)

\* C21, the part that holds: an explicit non-zero W is used unchanged, and
\* W = 0 gives the logical CPU count
C21_WorkersAsGiven ==
  (mode = "par" /\ wpc # <<>>) =>
    Len(wpc) = (IF workers # 0 THEN workers ELSE LogicalCpus)

\* a parallel run that passes the input checks
ParRun == mode = "par" /\ tries >= 1 /\ times >= 1

\* C22: under fair scheduling a parallel run with tries >= 1, times >= 1, no
\* interrupt and a handler that never fails eventually returns Ok.
C22_EventuallyOk ==
  (ParRun /\ [](~interrupted /\ AllCallsOk)) => <>ReturnedOk

\* C22, the absence of a hang alone: such a run eventually returns
C22_EventuallyReturns ==
  (ParRun /\ [](~interrupted /\ AllCallsOk)) => <>Returned

\* what get_all returns when no call is in progress
AllCounts ==
  {[chars |-> t, hits |-> hit_store.map[t]] :
     t \in {u \in Candidates : hit_store.map[u] # Absent}}

\* no add call is in progress
StoreQuiet == \A c \in Callers : hit_store.adding[c] = ""

\* C23: after any sequence of add calls on a hit store the snapshot holds
\* exactly one entry per distinct text added, with the number of add calls
\* made with that text, so the counts sum to the number of add calls; a
\* snapshot read while adds are running never shows an entry with count 0 nor
\* a count larger than the number of adds begun for that text.
C23_StoreCounts ==
  hit_store.used =>
    /\ StoreQuiet =>
         /\ AllCounts = {[chars |-> t, hits |-> hit_store.returned[t]] :
                           t \in {u \in Candidates : hit_store.returned[u] > 0}}
         /\ SumHits(AllCounts) = hits_sum(hit_store.returned)
    /\ \A e \in hit_store.got : e.hits >= 1 /\ e.hits <= e.begun
    /\ \A e, f \in hit_store.got : e.chars = f.chars => e = f

\* a snapshot of a shared store collected an entry while an add was running
\* on another text, after three adds were begun
C23_Witness ==
  /\ hit_store.used /\ hit_store.kind = "HitStore"
  /\ hits_sum(hit_store.started) = 3
  /\ ~StoreQuiet
  /\ \E e \in hit_store.got : e.hits = 2

\* the number of calls of a method on the builder so far
TimesCalled(method) ==
  Cardinality({i \in 1..Len(builder.called) : builder.called[i] = method})

\* C24: run_par and run_seq are invoked only on a builder on which tries,
\* times and regex have all been set, whatever optional setters were called
\* and in whatever order; in every other state no run operation is offered.
C24_RunOnlyWhenComplete ==
  builder.used =>
    /\ builder.run # "" => \A m \in RequiredSetters : TimesCalled(m) >= 1
    /\ (\E m \in RequiredSetters : TimesCalled(m) = 0) =>
         \A method \in RunMethods : ~Offers(builder, method)

\* a run was started after the required setters were called in the order
\* regex, workers, times, tries
C24_Witness ==
  /\ builder.used /\ builder.run = "run_par"
  /\ builder.called = <<"regex", "workers", "times", "tries">>

\* C25: once tries, times or regex has been set the builder no longer offers
\* the setter for that input, so each required input is set at most once.
C25_SetAtMostOnce ==
  builder.used =>
    \A m \in RequiredSetters :
      /\ TimesCalled(m) <= 1
      /\ TimesCalled(m) = 1 => ~Offers(builder, m)

\* C26: the interrupt handler installed by a run is removed before run_par or
\* run_seq returns, on every return path, so that a second run in the same
\* process installs its own handler successfully and behaves like the first.
C26_HandlerRemoved ==
  process.used =>
    /\ process.pc = "idle" =>
         process.ctrlc = NoHandler /\ process.listeners = {}
    /\ \A r \in 1..Len(process.results) : process.results[r].error # "Other"

\* the part of C26 that holds: no ctrl_c task of run_par outlives its run
C26_ParListenerRemoved ==
  process.used => (process.pc = "idle" => process.listeners = {})

\* the second run_seq of a process fails to install its handler
C26_SecondRunFails ==
  /\ process.used /\ Len(process.results) = 2
  /\ process.results[1] = [mode |-> "seq", kind |-> "Ok", error |-> ""]
  /\ process.results[2] = [mode |-> "seq", kind |-> "Err", error |-> "Other"]

\* the task of worker k panicked and its join is what run_par returned on
PanicJoined ==
  /\ mode = "par" /\ Returned
  /\ \E k \in joined : wpc[k] = "panicked"

\* C27: when a worker task panics run_par does not panic: it returns the
\* worker-failure error (WorkerError, not Cancelled and not a result) and all
\* other tasks of the run are cancelled: at the return no other worker is
\* still running, and the hit counter and the progress reporter have ended.
C27_WorkerPanic ==
  PanicJoined =>
    /\ result = Err("WorkerError")
    /\ \A k \in WorkerIds : WorkerEnded(k)
    /\ cpc \in {"done", "cancelled"}
    /\ apc \in {"done", "cancelled"}

\* C27, the returned value alone
C27_WorkerErrorReturned ==
  PanicJoined => result = Err("WorkerError")

\* C27, the other workers alone, in a run whose progress reporter was aborted
\* after an interrupt: when run_par returns on the join of a worker that
\* panicked, no other worker task is still running
C27_OtherWorkersEnded ==
  (PanicJoined /\ apc = "cancelled") => \A k \in WorkerIds : WorkerEnded(k)

\* C27, no hang: a run in which a worker panicked returns
C27_PanicReturns ==
  (mode = "par" /\ \E k \in DOMAIN wpc : wpc[k] = "panicked") ~> Returned

\* the number of occurrences of character c in string w
CountChar(w, c) == Cardinality({p \in 1..Len(w) : w[p] = c})

\* C28: for every times, gen(times) is a permutation of the multiset holding
\* times copies of each of W, K, C, N: its length is 4 * times, each symbol
\* occurs exactly times times, and validate(gen(times)) is true.
C28_GenBalanced ==
  (generator.used /\ generator.pc = "returned") =>
    /\ Len(generator.result) = 4 * generator.times
    /\ \A c \in {"W", "K", "C", "N"} :
         CountChar(generator.result, c) = generator.times
    /\ validate_chars(generator.result)

\* gen(2) returned a string that is not the unshuffled one
C28_Witness ==
  /\ generator.used /\ generator.pc = "returned" /\ generator.times = 2
  /\ generator.result = <<"N", "N", "W", "C", "K", "K", "C", "W">>

\* the alphabet a display transform converts from
SourceAlphabet(f) ==
  IF f = "chars_to_wakuchin" THEN {"W", "K", "C", "N"}
  ELSE {"wa", "ku", "chi", "n"}

\* C29: the two display transforms are inverse on valid input and total:
\* wakuchin_to_chars(chars_to_wakuchin(s)) = s for every s over W, K, C, N and
\* chars_to_wakuchin(wakuchin_to_chars(j)) = j for every j over the four
\* Japanese forms; the output has as many characters as the input, and every
\* character outside the source alphabet maps to the NUL character.
C29_TransformsInverse ==
  (converter.used /\ converter.pc # "call") =>
    /\ Len(converter.out) = Len(converter.chars)
    /\ \A p \in 1..Len(converter.chars) :
         IF converter.chars[p] \in SourceAlphabet(converter.f)
         THEN converter.out[p] \in SourceAlphabet(other_fn(converter.f))
         ELSE converter.out[p] = "NUL"
    /\ (converter.pc = "back"
          /\ \A p \in 1..Len(converter.chars) :
               converter.chars[p] \in SourceAlphabet(converter.f))
         => converter.back = converter.chars

\* the round trip of a valid Japanese string was made
C29_Witness ==
  /\ converter.used /\ converter.pc = "back"
  /\ converter.f = "wakuchin_to_chars"
  /\ converter.chars = <<"chi", "ku">>
  /\ converter.out = <<"C", "K">>
  /\ converter.back = <<"chi", "ku">>

\* a string with a character outside the alphabet was converted
C29_WitnessUnknown ==
  /\ converter.used /\ converter.pc = "returned"
  /\ converter.f = "chars_to_wakuchin"
  /\ converter.chars = <<"W", "a">>
  /\ converter.out = <<"wa", "NUL">>

\* C30: the hit counter sets drain_complete (count_stopped) only when every
\* hit sender, each worker's clone and the engine's own, has been dropped and
\* the hit channel is empty, that is after every hit ever sent was added to
\* the hit store; it is never true while a worker is still iterating, and
\* once it is true it stays true and the hit store no longer changes.
C30_DrainComplete ==
  [][/\ count_stopped' =>
          /\ ~main_hit_tx'
          /\ \A k \in DOMAIN wpc' : ~WorkerHoldsTx(k)' /\ wpc'[k] # "loop"
          /\ hit_chan' = <<>>
          /\ hits_sum(store') =
               SumOver([k \in DOMAIN whits' |-> Len(whits'[k])], DOMAIN whits')
     /\ count_stopped => (count_stopped' /\ store' = store)]_vars

\* the counter stopped after adding the hits of two workers to the store,
\* before the engine returned
C30_Witness ==
  /\ mode = "par" /\ count_stopped /\ pc # "returned"
  /\ Len(wpc) = 2 /\ \A k \in DOMAIN whits : Len(whits[k]) >= 1
  /\ hits_sum(store) >= 2

\* the final handle call of the render was made
FinalCall == thread_render.used /\ thread_render.handled.all_done

\* C31: in the final handle call of a parallel run progresses has exactly one
\* Done entry per worker, with ids 1..W' in increasing order, each entry's
\* total is the size of that worker's own range (so the totals sum to tries),
\* elapsed is the interval and current_diff is 0.
C31_FinalProgresses ==
  FinalCall =>
    LET ps == thread_render.handled.progresses IN
      /\ Len(ps) = Len(thread_render.total)
      /\ \A p \in 1..Len(ps) :
           /\ ps[p].kind = "Done"
           /\ ps[p].id = p
           /\ ps[p].total = thread_render.total[p]
      /\ sum_current(ps) = thread_render.tries
      /\ thread_render.handled.elapsed = "interval"
      /\ thread_render.handled.current_diff = 0

\* C31, what holds of it: one Done entry per worker, elapsed is the interval
\* and current_diff is 0
C31_FinalShape ==
  FinalCall =>
    LET ps == thread_render.handled.progresses IN
      /\ Len(ps) = Len(thread_render.total)
      /\ \A p \in 1..Len(ps) : ps[p].kind = "Done"
      /\ thread_render.handled.elapsed = "interval"
      /\ thread_render.handled.current_diff = 0

\* C31, the totals alone: the totals of the final call sum to tries
C31_FinalTotals ==
  FinalCall => sum_current(thread_render.handled.progresses) = thread_render.tries

\* the aggregate read for the handle call recorded in h (0 before any call)
AggregateOf(h) == IF h.calls = 0 THEN 0 ELSE sum_current(h.progresses)

\* C32: in every non-final handle call current_diff is the sum over the
\* workers of (Processing.current or Done.total, Idle counting 0) read for
\* this call minus the same sum read for the previous handle call (0 before
\* the first); the difference is never negative, so the unsigned subtraction
\* of DiffStore::update does not underflow, and the current_diff values of a
\* run sum to the last aggregate read.
C32_CurrentDiff ==
  [][(thread_render.used
        /\ thread_render'.handled.calls # thread_render.handled.calls
        /\ ~thread_render'.handled.all_done) =>
       /\ thread_render'.handled.current_diff =
            AggregateOf(thread_render'.handled) - AggregateOf(thread_render.handled)
       /\ thread_render'.handled.current_diff >= 0
       /\ thread_render'.diffs = AggregateOf(thread_render'.handled)]_vars

\* a second periodic call of a run with two workers reported a progress of
\* two candidates since the first, which had reported one
C32_Witness ==
  /\ thread_render.used /\ Len(thread_render.total) = 2
  /\ thread_render.handled.calls = 2 /\ ~thread_render.handled.all_done
  /\ thread_render.handled.current_diff = 2
  /\ thread_render.diffs = 3

\* the handle calls of the sequential render so far
SeqHandled == seq_render.handled

SendFails(k) ==
  /\ ~progress_open
  /\ \/ IterStep(k)
     \/ wpc[k] = "send" /\ wpc'[k] # "send"

\* C34: a worker whose send on the progress channel fails because the receiver
\* is gone treats it as cancellation: it leaves its loop at once and returns
\* its hit list; it does not panic and it does not go on to the next
\* candidate of its range.
C34_SendFailureExits ==
  [][\A k \in DOMAIN wpc :
       SendFails(k) =>
         /\ wpc'[k] # "panicked"
         /\ IterStep(k) => (wpc'[k] = "exit" \/ wi'[k] = total(k))]_vars

\* C34, the panic alone: no worker panics on a failed send
C34_NoPanicOnSend ==
  [][\A k \in DOMAIN wpc : SendFails(k) => wpc'[k] # "panicked"]_vars

\* a snapshot of the store is complete: get_all has read every shard
SnapshotTaken ==
  /\ hit_store.used /\ hit_store.todo = {} /\ hit_store.vec # <<>>

\* C37: the hits list of a result, which is the snapshot get_all returns,
\* lists the distinct texts in the order in which each text was first added
\* to the store; with no add running during the snapshot, the list is the
\* sequence of first insertions.
C37_FirstInsertionOrder ==
  (SnapshotTaken /\ StoreQuiet /\ Len(hit_store.vec) = Len(hit_store.first))
    => hit_store.vec = hit_store.first

\* the last element of a sequence
Last(q) == q[Len(q)]

\* C36: a hit made by a parallel worker carries the 0-based position of the
\* candidate inside that worker's own range, a number in [0, hi-lo), and not
\* the global index lo + position; a hit made by run_seq carries the global
\* index of the candidate, a number in [0, tries).
C36_HitOnLocal ==
  [][/\ \A k \in DOMAIN wpc :
          Len(whits'[k]) > Len(whits[k]) =>
            LET h == Last(whits'[k])
                lo == range_lo(tries, total_workers, k)
            IN /\ h.hit_on = wi[k]
               /\ h.hit_on \in 0..(total(k) - 1)
               /\ tested'[lo + h.hit_on] = tested[lo + h.hit_on] + 1
     /\ (mode = "seq" /\ Len(hits_detail') > Len(hits_detail)) =>
          LET h == Last(hits_detail')
          IN /\ h.hit_on = seq_i
             /\ h.hit_on \in 0..(tries - 1)
             /\ tested'[h.hit_on] = tested[h.hit_on] + 1]_vars

\* two workers of one run have each reported a hit with hit_on = 0, the
\* second one for the candidate of global index 1
C36_Witness ==
  /\ mode = "par" /\ DOMAIN whits = {1, 2} /\ 1 \in DOMAIN tested
  /\ range_lo(tries, total_workers, 2) = 1
  /\ \E a \in 1..Len(whits[1]), b \in 1..Len(whits[2]) :
       whits[1][a].hit_on = 0 /\ whits[2][b].hit_on = 0
  /\ tested[1] = 1

\* the threads that are inside an operation of the handler
InHandler == {t \in Threads : handler.in_op[t] # ""}

\* C35: at every moment of a parallel run at most one operation of the
\* handler is executing; the engine thread is inside the handler only before
\* any task is spawned (before_start), afterwards only the reporter task is,
\* and neither a worker nor the hit counter is ever inside the handler.
C35_OneHandlerOperation ==
  handler.used =>
    /\ Cardinality(InHandler) <= 1
    /\ InHandler \subseteq {"engine", "reporter"}
    /\ handler.in_op["engine"] \in {"", "before_start"}
    /\ handler.in_op["engine"] # "" => handler.spawned = {}
    /\ handler.in_op["reporter"] # "" => "reporter" \in handler.spawned
    /\ \A t \in InHandler : handler.render = t
    /\ \A n \in 1..Len(handler.ops) :
         handler.ops[n].by = IF handler.ops[n].spawned = {} THEN "engine"
                             ELSE "reporter"

\* the reporter is inside handle while the worker and the counter are still
\* running and the engine, which made the before_start call, is joining
C35_Witness ==
  /\ handler.used
  /\ handler.in_op["reporter"] = "handle"
  /\ handler.wleft > 0 /\ handler.counted < handler.sent
  /\ engine_program[handler.epc] = "join"
  /\ handler.ops[1].op = "before_start"

\* C40: for every terminal width and every tries value the bar width
\* terminal_width - 2 * tries_width - 55 of render_progress_bar and the
\* padding width - block - 1 of render_progress_segment are computed without
\* a result below zero.
C40_NoUnderflow == console.used => ~console.underflow

\* C40, the bar width alone
C40_BarWidthNonNegative ==
  (console.used /\ console.pc = "bar") =>
    possible_bar_width(console.terminal_width, string_len(console.tries)).fits

\* C40, the padding alone
C40_PaddingNonNegative ==
  (console.used /\ console.pc = "segment" /\ console.current < console.tries) =>
    console.bar_width
      - block_of(console.bar_width, console.current, console.tries) - 1 >= 0

\* the number of hits with text t the workers have sent so far
SentBy(t) ==
  Cardinality({kn \in (DOMAIN whits) \X (1..MaxTries) :
                 /\ kn[2] <= Len(whits[kn[1]])
                 /\ whits[kn[1]][kn[2]].chars = t})

\* the number of candidates tested so far
TestedSoFar == SumOver(tested, DOMAIN tested)

\* C39: during a parallel run the hit store never counts more than was sent:
\* at every moment, and so in every snapshot a handle call is given, the
\* count of each text is at most the number of hits with that text the
\* workers have sent, and the counts sum to at most the number of candidates
\* tested so far, which is at most tries.
C39_NoOverCount ==
  mode = "par" =>
    /\ \A t \in Candidates : store[t] <= SentBy(t)
    /\ hits_sum(store) <= TestedSoFar
    /\ TestedSoFar <= tries

\* a handle call was made, the counter has counted one hit of a text and a
\* second hit of that text is still in the channel
C39_Witness ==
  /\ mode = "par" /\ Joining
  /\ CallsOf("handle") # {}
  /\ \E t \in Candidates :
       /\ store[t] = 1 /\ SentBy(t) = 2
       /\ hit_chan # <<>> /\ Head(hit_chan).chars = t

\* a handle call of the render was made
HandleCalled == thread_render.used /\ thread_render.handled.calls > 0

\* C38: in every handle call of a run the progresses sum, Processing.current
\* or Done.total per entry, to at most tries, and every Processing entry has
\* current < total, so that tries minus the sum is not negative.
C38_ProgressWithinTries ==
  HandleCalled =>
    LET ps == thread_render.handled.progresses IN
      /\ sum_current(ps) <= thread_render.tries
      /\ \A p \in 1..Len(ps) :
           ps[p].kind = "Processing" => ps[p].current < ps[p].total

\* C38 for the periodic calls alone (all_done = false)
C38_PeriodicWithinTries ==
  (HandleCalled /\ ~thread_render.handled.all_done) =>
    LET ps == thread_render.handled.progresses IN
      /\ sum_current(ps) <= thread_render.tries
      /\ \A p \in 1..Len(ps) :
           ps[p].kind = "Processing" => ps[p].current < ps[p].total

====
